---- MODULE Spec2Model ----
(***************************************************************************)
(* Verification model of the voice-dialogue session core of AngryMiao/DAYN *)
(* (Go).  One section per subsystem; every subsystem has specifications of *)
(* its own that leave the variables of the other subsystems unchanged.     *)
(*                                                                         *)
(*   Spec         the speech pipeline of core/connection.go: the LLM       *)
(*                segment producer run by the recognizer's callback, the   *)
(*                TTS worker, the audio-send worker and barge-in.          *)
(*   IngressSpec  the inbound reader, the text / audio / MCP workers and    *)
(*                Close called by several goroutines.                      *)
(*   SessionSpec  rounds started by text frames, run by the text worker,   *)
(*                while the transport goes away and Close is called;       *)
(*                FairSessionSpec adds the scheduler's fairness.           *)
(*   AuthSpec     admission: the WebSocket upgrade handler and the first   *)
(*                message of an MQTT key.                                  *)
(*   UdpSpec      audio packets of one UDP session, from the UDP socket    *)
(*                and as UDP-format binary messages over MQTT.             *)
(*   TurnSpec     the turns of the two goroutines that run                 *)
(*                handleChatMessage on one dialogue: the LLM call, the     *)
(*                handling of a tool call's result, the Puts into the      *)
(*                DialogueManager and what is persisted.                   *)
(*   SegSpec      the segmenter of genResponseByLLM on one stream without  *)
(*                tool call.                                               *)
(*   DmSpec       one DialogueManager and the store behind it.             *)
(*   RoundSpec    the round counter h.talkRound under the goroutines that  *)
(*                dispatch utterances, and the round each TTS task gets.   *)
(*   ListenSpec   recognizer results in the three listen modes, the exit   *)
(*                command and the silence timeout; FairListenSpec adds the *)
(*                scheduler's fairness.                                    *)
(*   VadSpec      processAudioWithVAD on the VADState of one session.      *)
(*   DestroySpec  UDPSession.Destroy against SendAudioData and RecvData.   *)
(*   ConnSpec     MQTTConnection.Close against PushIncoming.               *)
(*   KeySpec      the messages of one MQTT key and the sessions created    *)
(*                for it.                                                  *)
(*   ChainSpec    the LLM invocations that answer one utterance;           *)
(*                FairChainSpec adds that the goroutine keeps running.     *)
(*   PresenceSpec the PresenceManager's record of one device.              *)
(*   WebrtcSpec   the WebRTC VAD provider's Process.                       *)
(***************************************************************************)
EXTENDS Integers, Sequences, FiniteSets, TLC

(***************************************************************************)
(* Bounds of the model.                                                    *)
(***************************************************************************)
\* utterances dispatched on one session
MaxRounds == 2
\* punctuation-bounded segments one LLM stream yields
MaxSegs == 2
\* tool-call re-entries of genResponseByLLM a goroutine makes on one session
MaxReentry == 1
\* capacity of a session channel in the model (make(chan ..., 100) in the code)
MaxQueue == 2
\* audio frames one synthesized segment is cut into
MaxFrames == 2
\* abort frames a talking client sends
MaxAborts == 1
\* frames the inbound reader reads from a client that does not barge in
MaxInbound == 3
\* upgrade requests and MQTT messages the transports handle
MaxAuthMsgs == 3
\* UDP-format packets a session receives, and the highest sequence number
MaxPackets == 3
MaxSeq == 2
\* utterances handled on one session
MaxTurns == 2
\* tool calls the LLM makes on one session
MaxToolCalls == 2
\* largest history KeepRecentMessages is asked to keep
MaxKeep == 2
\* content chunks of one LLM stream, and characters of one chunk
MaxChunks == 3
MaxChunkLen == 2
\* operations made on one DialogueManager
MaxDmOps == 4
\* utterances the goroutines of one session dispatch
MaxUtterances == 3
\* results the recognizer delivers on one session, and characters of the text
\* a manual listener accumulates
MaxResults == 2
MaxTextLen == 3
\* inbound audio chunks of one session
MaxAudio == 6
\* the frame size NewVADState is given (640 bytes), counted in units of 320 bytes
InitFrameSize == 2
\* the frame duration of the client's hello, in ms
FrameMs == 60
\* calls of SendAudioData and RecvData on one UDP session, and calls of Destroy
MaxSessCalls == 4
MaxDestroys == 2
\* messages pushed to one MQTT connection
MaxPushes == 5
\* messages on one MQTT key, and sessions created for it
MaxKeyMsgs == 5
MaxKeyHandlers == 3
\* utterances answered by chains of LLM invocations, and the number of
\* invocations of one chain the model counts up to
MaxChainTurns == 2
MaxCounted == 8
\* calls made on the PresenceManager for one device
MaxPresenceOps == 8
\* calls of the VAD provider's Process, and the frames of one call
MaxVadCalls == 3
MaxVadFrames == 6

(***************************************************************************)
(* Values of the code.                                                     *)
(***************************************************************************)
\* NewVADState(640, 200): the silence threshold in ms
SilenceThreshold == 200
\* handler.vadState.SetMaxBufferFrames(3)
MaxBufferFrames == 3
\* vadCheckFrames := 1 in processAudioWithVAD
VadCheckFrames == 1
\* the sample rate of the WebRTC VAD provider
DefaultSampleRate == 16000

VARIABLES
    \* ---- ConnectionHandler fields (core/connection.go:69-163)
    talkRound,            \* h.talkRound
    serverVoiceStop,      \* h.serverVoiceStop (int32, 0 or 1)
    deleteAudio,          \* h.config.DeleteAudio
    ttsQueue,             \* h.ttsQueue
    audioMessagesQueue,   \* h.audioMessagesQueue
    clientTextQueue,      \* h.clientTextQueue
    clientAudioQueue,     \* h.clientAudioQueue (number of queued chunks)
    mcpMessageQueue,      \* h.mcpMessageQueue (number of queued messages)
    stopChan,             \* number of close(h.stopChan) executed; closed iff > 0
    closeOnce,            \* h.closeOnce: "idle", "running", "done"
    cleanupRuns,          \* number of times the body of Close ran to its end
    \* ---- goroutines
    pc,                   \* position of every goroutine
    loc,                  \* locals of the two goroutines that run handleChatMessage
    ttsTask,              \* the task processTTSTask is working on
    audioTask,            \* the task sendAudioMessage is working on
    rmsg,                 \* the message the inbound reader is handing over
    inboundCount,         \* messages read from the transport so far
    \* ---- the transport, as the session's observer
    sentSegs,             \* the segments with a frame on the wire: round, index, and
                          \* whether a frame was written while another round was current
    \* ---- history variables
    abortMark,            \* round of the last abort that found tasks queued, and the
                          \* number of segments with a frame written since
    emitIdx,              \* last index emitted per round (-1: not 1..N in order)
    \* ---- WebSocketTransport (core/transport/websocket/transport.go)
    wsActive,             \* t.activeConnections
    \* ---- MQTTTransport
    mqAuthToken,          \* t.authToken # nil
    mqConnections,        \* t.connections (its keys)
    mqHandlers,           \* t.handlers
    mqOnline,             \* sessions the presence manager holds online via MQTT
    lastAdmit,            \* the last upgrade request or MQTT message and its outcome
    handlersCreated,      \* handlers returned by the factory's CreateHandler
    authCount,            \* requests and messages handled so far
    \* ---- UDPSession and the MQTT connection it belongs to
    udpStatus,            \* s.Status
    udpRemoteSeq,         \* s.RemoteSeq
    udpRecvChannel,       \* s.RecvChannel
    mqIncoming,           \* c.incoming (binary messages)
    heard,                \* binary messages ReadMessage has returned to the session
    udpHigh,              \* highest sequence number seen on the session (-1: none)
    udpCount,             \* packets received so far
    udpRemoteAddr,        \* session.RemoteAddr ("" is nil)
    udpAddr2Session,      \* the keys of s.addr2Session that lead to the session
    udpAddrBy,            \* Decrypt's verdict on the packet that last set RemoteAddr
    \* ---- the dialogue and the turns (core/chat/dialogue_manager.go)
    dialogue,             \* dm.dialogue
    saved,                \* rows the persistence backend has received
    tpc,                  \* where each goroutine is in its turn
    tloc,                 \* locals and outcome of each goroutine's turn
    dlgRound,             \* h.talkRound as the turns see it
    turns,                \* utterances handled so far
    toolCalls,            \* tool calls made so far
    \* ---- the segmenter of one stream (genResponseByLLM's locals)
    responseMessage,      \* the content received so far, joined
    processedChars,       \* cursor behind the last emitted segment
    textIndex,            \* index of the last emitted segment
    spoken,               \* SpeakAndPlay calls: index, text and the range it covers
    replies,              \* assistant messages Put at the end of the stream
    chunks,               \* chunks received so far
    segPc,                \* "stream", "flush", "put" or "done"
    \* ---- a DialogueManager and its memory (core/chat)
    dmDialogue,           \* dm.dialogue
    store,                \* what the backend holds for the user
    backend,              \* which MemoryInterface dm.memory is
    promptSet,            \* SetSystemMessage has set a prompt
    saves,                \* messages handed to SaveMemory since the last purge
    dmOps,                \* operations made so far
    \* ---- the round counter and the tags of the TTS tasks (core/connection.go)
    hTalkRound,           \* h.talkRound, incremented without a lock
    upc,                  \* where each goroutine is in its utterance
    uloc,                 \* the value it read, its currentRound, the round it speaks with
    utterances,           \* utterances received so far
    pairs,                \* currentRound of every stt / tts-start pair sent
    tasks,                \* the TTS tasks enqueued
    \* ---- the recognition listener (OnAsrResult, handleChatMessage)
    clientListenMode,     \* h.clientListenMode
    cmdExit,              \* CMD_exit is configured
    clientAsrText,        \* h.client_asr_text
    closeAfterChat,       \* h.closeAfterChat
    lClosed,              \* Close has run
    lVoiceStop,           \* h.serverVoiceStop as the listener sets it
    lQueued,              \* tasks in the TTS and audio-send queues
    lpc,                  \* where the recognizer's callback is
    lcur,                 \* the result it is handling
    lresults,             \* what the handled results did
    heardCount,           \* results delivered so far
    spc,                  \* where the egress is: "idle" or "finish"
    \* ---- the VAD state and the recognizer's input (core/vad_state.go)
    audioBuffer,          \* v.audioBuffer, each byte known by its chunk
    frameSize,            \* v.frameSize
    vadHaveVoice,         \* v.haveVoice
    voiceStop,            \* v.voiceStop
    idleDuration,         \* v.idleDuration
    asrCalls,             \* the calls made on the recognizer, in order
    edge,                 \* the buffer at the rising edge and the call that flushed it
    afterEdge,            \* the chunks that arrived after the rising edge
    stopAt,               \* the number of calls made when voiceStop was set
    audioIn,              \* chunks received so far
    \* ---- one UDPSession and its callers (transport/mqtt/udp_session.go)
    sessStatus,           \* s.Status
    chanLen,              \* elements in s.RecvChannel and s.SendChannel
    chanClosed,           \* whether each channel has been closed
    sessPc,               \* where each caller of SendAudioData / RecvData is
    destroyPc,            \* where Destroy is
    destroys,             \* calls of Destroy so far
    sessCalls,            \* calls of SendAudioData / RecvData so far
    sessResults,          \* what the calls have returned
    sessPanicked,         \* a send on a closed channel has happened
    \* ---- one MQTTConnection (transport/mqtt/connection.go)
    connClosedFlag,       \* c.closed
    incomingLen,          \* elements in c.incoming
    incomingClosed,       \* whether c.incoming has been closed
    pushPc,               \* where PushIncoming is
    pushes,               \* calls of PushIncoming so far
    connClosePc,          \* where each caller of Close is
    connPanicked,         \* a send on the closed c.incoming has happened
    \* ---- one key of the MQTT transport (transport/mqtt/transport.go)
    cbPc,                 \* where each invocation of onMessage is
    keyStored,            \* the session stored under the key in t.connections and
                          \* t.handlers, 0 for none
    handlerStage,         \* each session created for the key: running Handle,
                          \* in its deferred cleanup, or closed
    keyMsgs,              \* messages handled so far
    keyCreated,           \* sessions created so far
    \* ---- the LLM invocations made for one utterance (core/connection.go)
    chainPc,              \* "idle", "llm" (in genResponseByLLM) or "tool"
    llmCalls,             \* invocations of the LLM for the current utterance
    chainAction,          \* the action of the last tool result
    chainDone,            \* utterances answered
    \* ---- the PresenceManager's record of one device (core/device)
    dpKnown,              \* the device is in pm.devices
    dpOnline,             \* dp.Online
    dpSessions,           \* dp.Sessions: "absent", "online" or "offline"
    presenceOps,          \* calls made so far
    \* ---- the WebRTC VAD provider (core/providers/vad/webrtc_vad)
    vadCalls,             \* calls of Process so far
    vadResult             \* the last call: its input, its counts and what it returned

pipeVars == <<talkRound, serverVoiceStop, deleteAudio, ttsQueue, audioMessagesQueue,
              clientTextQueue, clientAudioQueue, mcpMessageQueue, stopChan, closeOnce,
              cleanupRuns, pc, loc, ttsTask, audioTask, rmsg, inboundCount, sentSegs,
              abortMark, emitIdx>>

authVars == <<wsActive, mqAuthToken, mqConnections, mqHandlers, mqOnline, lastAdmit,
              handlersCreated, authCount>>

udpVars == <<udpStatus, udpRemoteSeq, udpRecvChannel, mqIncoming, heard, udpHigh,
             udpCount, udpRemoteAddr, udpAddr2Session, udpAddrBy>>

turnVars == <<dialogue, saved, tpc, tloc, dlgRound, turns, toolCalls>>

segVars == <<responseMessage, processedChars, textIndex, spoken, replies, chunks, segPc>>

dmVars == <<dmDialogue, store, backend, promptSet, saves, dmOps>>

roundVars == <<hTalkRound, upc, uloc, utterances, pairs, tasks>>

listenVars == <<clientListenMode, cmdExit, clientAsrText, closeAfterChat, lClosed,
                lVoiceStop, lQueued, lpc, lcur, lresults, heardCount, spc>>

vadVars == <<audioBuffer, frameSize, vadHaveVoice, voiceStop, idleDuration, asrCalls,
             edge, afterEdge, stopAt, audioIn>>

destroyVars == <<sessStatus, chanLen, chanClosed, sessPc, destroyPc, destroys, sessCalls,
                 sessResults, sessPanicked>>

connVars == <<connClosedFlag, incomingLen, incomingClosed, pushPc, pushes, connClosePc,
              connPanicked>>

keyVars == <<cbPc, keyStored, handlerStage, keyMsgs, keyCreated>>

chainVars == <<chainPc, llmCalls, chainAction, chainDone>>

presenceVars == <<dpKnown, dpOnline, dpSessions, presenceOps>>

webrtcVars == <<vadCalls, vadResult>>

vars == <<pipeVars, authVars, udpVars, turnVars, segVars, dmVars, roundVars, listenVars,
          vadVars, destroyVars, connVars, keyVars, chainVars, presenceVars, webrtcVars>>

\* every subsystem leaves the variables of the others alone
PipeFrame == UNCHANGED <<authVars, udpVars, turnVars, segVars, dmVars, roundVars, listenVars, vadVars, destroyVars, connVars, keyVars, chainVars, presenceVars, webrtcVars>>
AuthFrame == UNCHANGED <<pipeVars, udpVars, turnVars, segVars, dmVars, roundVars, listenVars, vadVars, destroyVars, connVars, keyVars, chainVars, presenceVars, webrtcVars>>
UdpFrame == UNCHANGED <<pipeVars, authVars, turnVars, segVars, dmVars, roundVars, listenVars, vadVars, destroyVars, connVars, keyVars, chainVars, presenceVars, webrtcVars>>
TurnFrame == UNCHANGED <<pipeVars, authVars, udpVars, segVars, dmVars, roundVars, listenVars, vadVars, destroyVars, connVars, keyVars, chainVars, presenceVars, webrtcVars>>
SegFrame == UNCHANGED <<pipeVars, authVars, udpVars, turnVars, dmVars, roundVars, listenVars, vadVars, destroyVars, connVars, keyVars, chainVars, presenceVars, webrtcVars>>
DmFrame == UNCHANGED <<pipeVars, authVars, udpVars, turnVars, segVars, roundVars, listenVars, vadVars, destroyVars, connVars, keyVars, chainVars, presenceVars, webrtcVars>>
RoundFrame == UNCHANGED <<pipeVars, authVars, udpVars, turnVars, segVars, dmVars, listenVars, vadVars, destroyVars, connVars, keyVars, chainVars, presenceVars, webrtcVars>>
ListenFrame == UNCHANGED <<pipeVars, authVars, udpVars, turnVars, segVars, dmVars, roundVars, vadVars, destroyVars, connVars, keyVars, chainVars, presenceVars, webrtcVars>>
VadFrame == UNCHANGED <<pipeVars, authVars, udpVars, turnVars, segVars, dmVars, roundVars, listenVars, destroyVars, connVars, keyVars, chainVars, presenceVars, webrtcVars>>
DestroyFrame == UNCHANGED <<pipeVars, authVars, udpVars, turnVars, segVars, dmVars, roundVars, listenVars, vadVars, connVars, keyVars, chainVars, presenceVars, webrtcVars>>
ConnFrame == UNCHANGED <<pipeVars, authVars, udpVars, turnVars, segVars, dmVars, roundVars, listenVars, vadVars, destroyVars, keyVars, chainVars, presenceVars, webrtcVars>>
KeyFrame == UNCHANGED <<pipeVars, authVars, udpVars, turnVars, segVars, dmVars, roundVars, listenVars, vadVars, destroyVars, connVars, chainVars, presenceVars, webrtcVars>>
ChainFrame == UNCHANGED <<pipeVars, authVars, udpVars, turnVars, segVars, dmVars, roundVars, listenVars, vadVars, destroyVars, connVars, keyVars, presenceVars, webrtcVars>>
PresenceFrame == UNCHANGED <<pipeVars, authVars, udpVars, turnVars, segVars, dmVars, roundVars, listenVars, vadVars, destroyVars, connVars, keyVars, chainVars, webrtcVars>>
WebrtcFrame == UNCHANGED <<pipeVars, authVars, udpVars, turnVars, segVars, dmVars, roundVars, listenVars, vadVars, destroyVars, connVars, keyVars, chainVars, presenceVars>>

(***************************************************************************)
(* The pipeline: goroutines and helpers.                                   *)
(***************************************************************************)
Dispatchers == {"asr", "text"}
Workers == {"audio", "text", "mcp", "tts", "send"}
Closers == {"text", "reader", "stopper"}
Procs == {"asr", "text", "audio", "mcp", "tts", "send", "reader", "stopper"}

NoTask == [round |-> 0]
NoAbort == [round |-> 0, more |-> 0]

Closed == stopChan > 0

\* where a goroutine idles between two pieces of work
Home(p) == IF p = "asr" THEN "idle" ELSE "wait"

\* a buffered channel of capacity MaxQueue: a send proceeds only while there is room
CanSend(q) == Len(q) < MaxQueue

\* a channel that would hand over its newest element first
SendFront(q, t) == <<t>> \o q

\* ch <- t on a buffered channel: the element joins the end of the buffer
Send(q, t) == Append(q, t)

\* the element a single-consumer coroutine receives from a channel
Recv(q) == Head(q)

\* utterances accepted but not yet given a round (keeps talkRound within MaxRounds)
Reserved ==
    Cardinality({p \in Dispatchers : pc[p] = "chat"})
    + Cardinality({i \in DOMAIN clientTextQueue : clientTextQueue[i] = "chat"})
    + (IF rmsg = "chat" THEN 1 ELSE 0)

\* a SpeakAndPlay that would keep the text whatever the flag
SpeakTextKept(stop) == "seg"

\* the text SpeakAndPlay's deferred send enqueues, given the flag it loaded
SpeakText(stop) == IF stop = 1 THEN "" ELSE "seg"

PipeInit(deleteConfigs) ==
    /\ talkRound = 0
    /\ serverVoiceStop = 0
    /\ deleteAudio \in deleteConfigs
    /\ ttsQueue = <<>>
    /\ audioMessagesQueue = <<>>
    /\ clientTextQueue = <<>>
    /\ clientAudioQueue = 0
    /\ mcpMessageQueue = 0
    /\ stopChan = 0
    /\ closeOnce = "idle"
    /\ cleanupRuns = 0
    /\ pc = [p \in Procs |-> IF p \in {"asr", "stopper"} THEN "idle"
                             ELSE IF p = "reader" THEN "read" ELSE "wait"]
    /\ loc = [p \in Dispatchers |->
                [round |-> 0, textIndex |-> 0, reentry |-> 0, stop |-> 0, text |-> ""]]
    /\ ttsTask = NoTask
    /\ audioTask = NoTask
    /\ rmsg = "none"
    /\ inboundCount = 0
    /\ sentSegs = {}
    /\ abortMark = NoAbort
    /\ emitIdx = [r \in 1..MaxRounds |-> 0]

(***************************************************************************)
(* handleChatMessage / genResponseByLLM, run by the recognizer's callback  *)
(* goroutine (OnAsrResult, auto mode) and by the text worker ("chat").     *)
(***************************************************************************)
\* OnAsrResult: a non-empty result in auto mode enters handleChatMessage
OnAsrResult ==
    /\ pc["asr"] = "idle"
    /\ ~Closed
    /\ talkRound + Reserved < MaxRounds
    /\ pc' = [pc EXCEPT !["asr"] = "chat"]
    /\ UNCHANGED <<talkRound, serverVoiceStop, deleteAudio, ttsQueue,
                   audioMessagesQueue, clientTextQueue, clientAudioQueue,
                   mcpMessageQueue, stopChan, closeOnce, cleanupRuns, loc, ttsTask,
                   audioTask, rmsg, inboundCount, sentSegs, abortMark, emitIdx>>
    /\ PipeFrame

\* handleChatMessage: h.talkRound++, currentRound := h.talkRound, user message stored
StartRound(p) ==
    /\ pc[p] = "chat"
    /\ talkRound' = talkRound + 1
    /\ loc' = [loc EXCEPT ![p] = [round |-> talkRound + 1, textIndex |-> 0,
                                  reentry |-> loc[p].reentry, stop |-> 0, text |-> ""]]
    /\ pc' = [pc EXCEPT ![p] = "llm"]
    /\ UNCHANGED <<serverVoiceStop, deleteAudio, ttsQueue, audioMessagesQueue,
                   clientTextQueue, clientAudioQueue, mcpMessageQueue, stopChan,
                   closeOnce, cleanupRuns, ttsTask, audioTask, rmsg, inboundCount,
                   sentSegs, abortMark, emitIdx>>
    /\ PipeFrame

\* genResponseByLLM up to the stream: the LLM call fails and the function returns,
\* or it succeeds, atomic.StoreInt32(&h.serverVoiceStop, 0) is executed and the
\* local textIndex starts at 0
LLMCall(p) ==
    /\ pc[p] = "llm"
    /\ \E ok \in BOOLEAN :
         IF ok
         THEN /\ serverVoiceStop' = 0
              /\ loc' = [loc EXCEPT ![p].textIndex = 0]
              /\ pc' = [pc EXCEPT ![p] = "stream"]
         ELSE /\ pc' = [pc EXCEPT ![p] = Home(p)]
              /\ UNCHANGED <<serverVoiceStop, loc>>
    /\ UNCHANGED <<talkRound, deleteAudio, ttsQueue, audioMessagesQueue,
                   clientTextQueue, clientAudioQueue, mcpMessageQueue, stopChan,
                   closeOnce, cleanupRuns, ttsTask, audioTask, rmsg, inboundCount,
                   sentSegs, abortMark, emitIdx>>
    /\ PipeFrame

\* one segment cut from the stream: textIndex++, SpeakAndPlay loads the flag
StreamSegment(p) ==
    /\ pc[p] = "stream"
    /\ loc[p].textIndex < MaxSegs
    /\ loc' = [loc EXCEPT ![p].textIndex = @ + 1, ![p].stop = serverVoiceStop,
                           ![p].text = SpeakText(serverVoiceStop)]
    /\ emitIdx' = [emitIdx EXCEPT ![loc[p].round] =
                      IF @ >= 0 /\ loc[p].textIndex + 1 = @ + 1 THEN @ + 1 ELSE -1]
    /\ pc' = [pc EXCEPT ![p] = "enqueue"]
    /\ UNCHANGED <<talkRound, serverVoiceStop, deleteAudio, ttsQueue,
                   audioMessagesQueue, clientTextQueue, clientAudioQueue,
                   mcpMessageQueue, stopChan, closeOnce, cleanupRuns, ttsTask,
                   audioTask, rmsg, inboundCount, sentSegs, abortMark>>
    /\ PipeFrame

\* SpeakAndPlay's deferred h.ttsQueue <- {text, round, textIndex}: a blocking send
SpeakEnqueue(p) ==
    /\ pc[p] = "enqueue"
    /\ CanSend(ttsQueue)
    /\ ttsQueue' = Send(ttsQueue, [text |-> loc[p].text, round |-> loc[p].round,
                                   textIndex |-> loc[p].textIndex])
    /\ pc' = [pc EXCEPT ![p] = "stream"]
    /\ UNCHANGED <<talkRound, serverVoiceStop, deleteAudio, audioMessagesQueue,
                   clientTextQueue, clientAudioQueue, mcpMessageQueue, stopChan,
                   closeOnce, cleanupRuns, loc, ttsTask, audioTask, rmsg, inboundCount,
                   sentSegs, abortMark, emitIdx>>
    /\ PipeFrame

\* the stream ends without a tool call: genResponseByLLM returns
StreamEnd(p) ==
    /\ pc[p] = "stream"
    /\ pc' = [pc EXCEPT ![p] = Home(p)]
    /\ UNCHANGED <<talkRound, serverVoiceStop, deleteAudio, ttsQueue,
                   audioMessagesQueue, clientTextQueue, clientAudioQueue,
                   mcpMessageQueue, stopChan, closeOnce, cleanupRuns, loc, ttsTask,
                   audioTask, rmsg, inboundCount, sentSegs, abortMark, emitIdx>>
    /\ PipeFrame

\* the stream ends with a tool call whose result is req_llm: handleFunctionResult
\* calls genResponseByLLM(ctx, dialogue, h.talkRound)
ToolReentry(p) ==
    /\ pc[p] = "stream"
    /\ loc[p].reentry < MaxReentry
    /\ loc' = [loc EXCEPT ![p].reentry = @ + 1, ![p].round = talkRound]
    /\ pc' = [pc EXCEPT ![p] = "llm"]
    /\ UNCHANGED <<talkRound, serverVoiceStop, deleteAudio, ttsQueue,
                   audioMessagesQueue, clientTextQueue, clientAudioQueue,
                   mcpMessageQueue, stopChan, closeOnce, cleanupRuns, ttsTask,
                   audioTask, rmsg, inboundCount, sentSegs, abortMark, emitIdx>>
    /\ PipeFrame

(***************************************************************************)
(* The inbound reader: Handle's main loop and handleMessage.               *)
(***************************************************************************)
\* conn.ReadMessage returns one of the client's frames
ReaderRead(kinds, limit) ==
    /\ pc["reader"] = "read"
    /\ ~Closed
    /\ inboundCount < limit
    /\ \E m \in kinds :
         /\ m = "chat" => talkRound + Reserved < MaxRounds
         /\ rmsg' = m
    /\ inboundCount' = inboundCount + 1
    /\ pc' = [pc EXCEPT !["reader"] = "push"]
    /\ UNCHANGED <<talkRound, serverVoiceStop, deleteAudio, ttsQueue,
                   audioMessagesQueue, clientTextQueue, clientAudioQueue,
                   mcpMessageQueue, stopChan, closeOnce, cleanupRuns, loc, ttsTask,
                   audioTask, sentSegs, abortMark, emitIdx>>
    /\ PipeFrame

\* the queue handleMessage sends the frame to has room
RoomFor(m) ==
    IF m = "mcp" THEN mcpMessageQueue < MaxQueue
    ELSE IF m = "audio" THEN clientAudioQueue < MaxQueue
    ELSE CanSend(clientTextQueue)

\* handleMessage: h.mcpMessageQueue <- m, h.clientTextQueue <- m or
\* h.clientAudioQueue <- m, each a blocking send
ReaderPush ==
    /\ pc["reader"] = "push"
    /\ RoomFor(rmsg)
    /\ IF rmsg = "mcp"
       THEN /\ mcpMessageQueue' = mcpMessageQueue + 1
            /\ UNCHANGED <<clientTextQueue, clientAudioQueue>>
       ELSE IF rmsg = "audio"
       THEN /\ clientAudioQueue' = clientAudioQueue + 1
            /\ UNCHANGED <<clientTextQueue, mcpMessageQueue>>
       ELSE /\ clientTextQueue' = Append(clientTextQueue, rmsg)
            /\ UNCHANGED <<clientAudioQueue, mcpMessageQueue>>
    /\ rmsg' = "none"
    /\ pc' = [pc EXCEPT !["reader"] = "read"]
    /\ UNCHANGED <<talkRound, serverVoiceStop, deleteAudio, ttsQueue,
                   audioMessagesQueue, stopChan, closeOnce, cleanupRuns, loc, ttsTask,
                   audioTask, inboundCount, sentSegs, abortMark, emitIdx>>
    /\ PipeFrame

\* the main loop ends (stopChan closed, or a read error): Handle returns and the
\* transport's deferred cleanup calls handler.Close()
ReaderEnd ==
    /\ pc["reader"] = "read"
    /\ pc' = [pc EXCEPT !["reader"] = "close"]
    /\ UNCHANGED <<talkRound, serverVoiceStop, deleteAudio, ttsQueue,
                   audioMessagesQueue, clientTextQueue, clientAudioQueue,
                   mcpMessageQueue, stopChan, closeOnce, cleanupRuns, loc, ttsTask,
                   audioTask, rmsg, inboundCount, sentSegs, abortMark, emitIdx>>
    /\ PipeFrame

\* the transport's Stop() calls handler.Close() on every active handler
TransportStop ==
    /\ pc["stopper"] = "idle"
    /\ pc' = [pc EXCEPT !["stopper"] = "close"]
    /\ UNCHANGED <<talkRound, serverVoiceStop, deleteAudio, ttsQueue,
                   audioMessagesQueue, clientTextQueue, clientAudioQueue,
                   mcpMessageQueue, stopChan, closeOnce, cleanupRuns, loc, ttsTask,
                   audioTask, rmsg, inboundCount, sentSegs, abortMark, emitIdx>>
    /\ PipeFrame

(***************************************************************************)
(* Close.                                                                  *)
(***************************************************************************)
\* where a caller of Close continues
AfterClose(p) == IF p = "text" THEN "wait" ELSE "done"

\* a guard that would let a caller in while the body is running
OnceNotDone == closeOnce # "done"

\* sync.Once: the caller that may run the body
OnceFree == closeOnce = "idle"

\* h.closeOnce.Do: the first caller runs the body, a caller that finds the body
\* done returns, a caller that finds it running waits
CloseEnter(p) ==
    /\ pc[p] = "close"
    /\ \/ /\ OnceFree
          /\ closeOnce' = "running"
          /\ pc' = [pc EXCEPT ![p] = "close_stop"]
       \/ /\ closeOnce = "done"
          /\ pc' = [pc EXCEPT ![p] = AfterClose(p)]
          /\ UNCHANGED closeOnce
    /\ UNCHANGED <<talkRound, serverVoiceStop, deleteAudio, ttsQueue,
                   audioMessagesQueue, clientTextQueue, clientAudioQueue,
                   mcpMessageQueue, stopChan, cleanupRuns, loc, ttsTask, audioTask,
                   rmsg, inboundCount, sentSegs, abortMark, emitIdx>>
    /\ PipeFrame

\* close(h.stopChan)
CloseStopChan(p) ==
    /\ pc[p] = "close_stop"
    /\ stopChan' = stopChan + 1
    /\ pc' = [pc EXCEPT ![p] = "close_clean"]
    /\ UNCHANGED <<talkRound, serverVoiceStop, deleteAudio, ttsQueue,
                   audioMessagesQueue, clientTextQueue, clientAudioQueue,
                   mcpMessageQueue, closeOnce, cleanupRuns, loc, ttsTask, audioTask,
                   rmsg, inboundCount, sentSegs, abortMark, emitIdx>>
    /\ PipeFrame

\* the rest of the body: provider resets and cleanTTSAndAudioQueue(true)
CloseCleanup(p) ==
    /\ pc[p] = "close_clean"
    /\ ttsQueue' = <<>>
    /\ audioMessagesQueue' = <<>>
    /\ cleanupRuns' = cleanupRuns + 1
    /\ closeOnce' = "done"
    /\ pc' = [pc EXCEPT ![p] = AfterClose(p)]
    /\ UNCHANGED <<talkRound, serverVoiceStop, deleteAudio, clientTextQueue,
                   clientAudioQueue, mcpMessageQueue, stopChan, loc, ttsTask,
                   audioTask, rmsg, inboundCount, sentSegs, abortMark, emitIdx>>
    /\ PipeFrame

(***************************************************************************)
(* The worker coroutines.                                                  *)
(***************************************************************************)
\* case <-h.stopChan: return
WorkerReturn(w) ==
    /\ pc[w] = "wait"
    /\ Closed
    /\ pc' = [pc EXCEPT ![w] = "returned"]
    /\ UNCHANGED <<talkRound, serverVoiceStop, deleteAudio, ttsQueue,
                   audioMessagesQueue, clientTextQueue, clientAudioQueue,
                   mcpMessageQueue, stopChan, closeOnce, cleanupRuns, loc, ttsTask,
                   audioTask, rmsg, inboundCount, sentSegs, abortMark, emitIdx>>
    /\ PipeFrame

\* the segments of the current round waiting in the two queues
QueuedNow ==
    Cardinality({i \in DOMAIN ttsQueue :
                    ttsQueue[i].round = talkRound /\ ttsQueue[i].text # ""})
    + Cardinality({i \in DOMAIN audioMessagesQueue :
                    audioMessagesQueue[i].round = talkRound
                    /\ audioMessagesQueue[i].text # ""})

\* processClientTextMessagesCoroutine: one text frame.  "abort" runs
\* clientAbortChat (stopServerSpeak: flag := 1, both queues drained); "chat" enters
\* handleChatMessage; an exit command makes QuitIntent call Close
TextTake ==
    /\ pc["text"] = "wait"
    /\ clientTextQueue # <<>>
    /\ clientTextQueue' = Tail(clientTextQueue)
    /\ \/ /\ Recv(clientTextQueue) = "abort"
          /\ serverVoiceStop' = 1
          /\ ttsQueue' = <<>>
          /\ audioMessagesQueue' = <<>>
          /\ abortMark' = IF QueuedNow > 0 THEN [round |-> talkRound, more |-> 0]
                          ELSE NoAbort
          /\ audioTask' = IF pc["send"] = "frames"
                          THEN [audioTask EXCEPT !.marked = FALSE] ELSE audioTask
          /\ UNCHANGED pc
       \/ /\ Recv(clientTextQueue) = "chat"
          /\ pc' = [pc EXCEPT !["text"] = "chat"]
          /\ UNCHANGED <<serverVoiceStop, ttsQueue, audioMessagesQueue, abortMark,
                         audioTask>>
       \/ /\ Recv(clientTextQueue) = "exit"
          /\ pc' = [pc EXCEPT !["text"] = "close"]
          /\ UNCHANGED <<serverVoiceStop, ttsQueue, audioMessagesQueue, abortMark,
                         audioTask>>
    /\ UNCHANGED <<talkRound, deleteAudio, clientAudioQueue, mcpMessageQueue, stopChan,
                   closeOnce, cleanupRuns, loc, ttsTask, rmsg, inboundCount, sentSegs,
                   emitIdx>>
    /\ PipeFrame

\* processClientAudioMessagesCoroutine: one chunk handed to the recognizer
AudioTake ==
    /\ pc["audio"] = "wait"
    /\ clientAudioQueue > 0
    /\ clientAudioQueue' = clientAudioQueue - 1
    /\ UNCHANGED <<talkRound, serverVoiceStop, deleteAudio, ttsQueue,
                   audioMessagesQueue, clientTextQueue, mcpMessageQueue, stopChan,
                   closeOnce, cleanupRuns, pc, loc, ttsTask, audioTask, rmsg,
                   inboundCount, sentSegs, abortMark, emitIdx>>
    /\ PipeFrame

\* processMCPMessagesCoroutine: one message handed to the MCP manager
McpTake ==
    /\ pc["mcp"] = "wait"
    /\ mcpMessageQueue > 0
    /\ mcpMessageQueue' = mcpMessageQueue - 1
    /\ UNCHANGED <<talkRound, serverVoiceStop, deleteAudio, ttsQueue,
                   audioMessagesQueue, clientTextQueue, clientAudioQueue, stopChan,
                   closeOnce, cleanupRuns, pc, loc, ttsTask, audioTask, rmsg,
                   inboundCount, sentSegs, abortMark, emitIdx>>
    /\ PipeFrame

\* processTTSQueueCoroutine: task := <-h.ttsQueue, handed to processTTSTask
\* (the task's round is not compared with h.talkRound)
TTSTake ==
    /\ pc["tts"] = "wait"
    /\ ttsQueue # <<>>
    /\ ttsTask' = [text |-> Recv(ttsQueue).text, round |-> Recv(ttsQueue).round,
                   textIndex |-> Recv(ttsQueue).textIndex, filepath |-> "",
                   stop |-> 0, stale |-> Recv(ttsQueue).round # talkRound]
    /\ ttsQueue' = Tail(ttsQueue)
    /\ pc' = [pc EXCEPT !["tts"] = "synth"]
    /\ UNCHANGED <<talkRound, serverVoiceStop, deleteAudio, audioMessagesQueue,
                   clientTextQueue, clientAudioQueue, mcpMessageQueue, stopChan,
                   closeOnce, cleanupRuns, loc, audioTask, rmsg, inboundCount,
                   sentSegs, abortMark, emitIdx>>
    /\ PipeFrame

\* the path processTTSTask forwards once ToTTS has produced a file: with the flag
\* set, deleteAudioFileIfNeeded removes the file when delete_audio is configured,
\* and the path is forwarded all the same
SynthPath(stop) == IF stop = 1 /\ deleteAudio THEN "gone" ELSE "file"

\* processTTSTask: an empty text returns at once; otherwise ToTTS fails or produces
\* a file, and the flag is loaded
TTSSynth ==
    /\ pc["tts"] = "synth"
    /\ IF ttsTask.text = ""
       THEN UNCHANGED ttsTask
       ELSE \E ok \in BOOLEAN :
              ttsTask' = [ttsTask EXCEPT
                            !.stop = IF ok THEN serverVoiceStop ELSE 0,
                            !.filepath = IF ok THEN SynthPath(serverVoiceStop) ELSE ""]
    /\ pc' = [pc EXCEPT !["tts"] = "forward"]
    /\ UNCHANGED <<talkRound, serverVoiceStop, deleteAudio, ttsQueue,
                   audioMessagesQueue, clientTextQueue, clientAudioQueue,
                   mcpMessageQueue, stopChan, closeOnce, cleanupRuns, loc, audioTask,
                   rmsg, inboundCount, sentSegs, abortMark, emitIdx>>
    /\ PipeFrame

\* processTTSTask's deferred h.audioMessagesQueue <- {filepath, text, round,
\* textIndex}: a blocking send on every path
TTSForward ==
    /\ pc["tts"] = "forward"
    /\ CanSend(audioMessagesQueue)
    /\ audioMessagesQueue' = Send(audioMessagesQueue,
           [filepath |-> ttsTask.filepath, text |-> ttsTask.text,
            round |-> ttsTask.round, textIndex |-> ttsTask.textIndex])
    /\ ttsTask' = NoTask
    /\ pc' = [pc EXCEPT !["tts"] = "wait"]
    /\ UNCHANGED <<talkRound, serverVoiceStop, deleteAudio, ttsQueue, clientTextQueue,
                   clientAudioQueue, mcpMessageQueue, stopChan, closeOnce, cleanupRuns,
                   loc, audioTask, rmsg, inboundCount, sentSegs, abortMark, emitIdx>>
    /\ PipeFrame

\* sendAudioMessage's check of a task read from the audio-send queue
StaleRound(task) == task.round # talkRound

\* sendAudioMessageCoroutine: task := <-h.audioMessagesQueue; sendAudioMessage
\* discards a task of another round and one with no readable file
SendTake ==
    /\ pc["send"] = "wait"
    /\ audioMessagesQueue # <<>>
    /\ audioMessagesQueue' = Tail(audioMessagesQueue)
    /\ IF StaleRound(Recv(audioMessagesQueue)) \/ Recv(audioMessagesQueue).filepath # "file"
       THEN UNCHANGED <<pc, audioTask>>
       ELSE /\ audioTask' = [round |-> Recv(audioMessagesQueue).round,
                             textIndex |-> Recv(audioMessagesQueue).textIndex,
                             frames |-> 0, marked |-> FALSE]
            /\ pc' = [pc EXCEPT !["send"] = "frames"]
    /\ UNCHANGED <<talkRound, serverVoiceStop, deleteAudio, ttsQueue, clientTextQueue,
                   clientAudioQueue, mcpMessageQueue, stopChan, closeOnce, cleanupRuns,
                   loc, ttsTask, rmsg, inboundCount, sentSegs, abortMark, emitIdx>>
    /\ PipeFrame

\* sendAudioMessage: conn.write(binary, frame) for the next frame of the file
SendFrame ==
    /\ pc["send"] = "frames"
    /\ sentSegs' = sentSegs \cup {[round |-> audioTask.round,
                                   textIndex |-> audioTask.textIndex,
                                   late |-> audioTask.round # talkRound]}
    /\ abortMark' = IF abortMark.round = audioTask.round /\ ~audioTask.marked
                    THEN [abortMark EXCEPT !.more = @ + 1] ELSE abortMark
    /\ IF audioTask.frames + 1 = MaxFrames
       THEN /\ audioTask' = NoTask
            /\ pc' = [pc EXCEPT !["send"] = "wait"]
       ELSE /\ audioTask' = [audioTask EXCEPT !.frames = @ + 1, !.marked = TRUE]
            /\ UNCHANGED pc
    /\ UNCHANGED <<talkRound, serverVoiceStop, deleteAudio, ttsQueue,
                   audioMessagesQueue, clientTextQueue, clientAudioQueue,
                   mcpMessageQueue, stopChan, closeOnce, cleanupRuns, loc, ttsTask,
                   rmsg, inboundCount, emitIdx>>
    /\ PipeFrame

(***************************************************************************)
(* Admission of connections: the WebSocket upgrade handler and the MQTT    *)
(* first-message handshake.                                                *)
(***************************************************************************)
\* device ids and session ids as they appear in headers and topics; ":" is the
\* separator of the MQTT connection key and may occur inside an id
DeviceIds == {"a", "a:b"}
SessionIds == {"c", "b:c"}

\* bearer tokens: absent, not verifiable, or a JWT signed for a device
Tokens == {[kind |-> "none", dev |-> ""], [kind |-> "bad", dev |-> ""]}
          \cup {[kind |-> "jwt", dev |-> d] : d \in DeviceIds}

\* AuthToken.VerifyToken: (valid, deviceID)
VerifyToken(tok) ==
    IF tok.kind = "jwt" THEN [valid |-> TRUE, deviceID |-> tok.dev]
    ELSE [valid |-> FALSE, deviceID |-> ""]

\* a verifyJWTAuth that would not compare the device ids
VerifyJWTAuthAnyDevice(tok, dev) ==
    IF tok.kind = "none" THEN "no_bearer"
    ELSE IF ~VerifyToken(tok).valid THEN "bad_token"
    ELSE "ok"

\* WebSocketTransport.verifyJWTAuth on the Authorization and Device-Id headers
VerifyJWTAuth(tok, dev) ==
    IF tok.kind = "none" THEN "no_bearer"
    ELSE IF ~VerifyToken(tok).valid THEN "bad_token"
    ELSE IF dev # VerifyToken(tok).deviceID THEN "device_mismatch"
    ELSE "ok"

\* an upgrade request as verifyJWTAuth reads it (after the query parameters of a
\* browser client have been copied into the headers): the bearer token of the
\* Authorization header and the Device-Id header, "" when absent
WsRequests == [auth : Tokens, dev : DeviceIds \cup {""}]

NoAdmission == [via |-> "none"]

\* what handleWebSocket leaves behind
WsOutcome(req, status, created) ==
    [via |-> "ws", req |-> req, status |-> status, created |-> created]

\* http.StatusUnauthorized
StatusUnauthorized == 401

\* handleWebSocket, one request from its arrival to the start of the handler's
\* goroutine; status is what the handler answers: 401, 101 once the upgrade has
\* succeeded, 0 when the upgrade failed
HandleWebSocket ==
    /\ authCount < MaxAuthMsgs
    /\ authCount' = authCount + 1
    /\ \E req \in WsRequests :
         IF VerifyJWTAuth(req.auth, req.dev) # "ok"
         THEN /\ lastAdmit' = WsOutcome(req, StatusUnauthorized, FALSE)
              /\ UNCHANGED <<wsActive, handlersCreated>>
         ELSE \/ \* Upgrade fails
                 /\ lastAdmit' = WsOutcome(req, 0, FALSE)
                 /\ UNCHANGED <<wsActive, handlersCreated>>
              \/ \* CreateHandler returns nil
                 /\ lastAdmit' = WsOutcome(req, 101, FALSE)
                 /\ UNCHANGED <<wsActive, handlersCreated>>
              \/ /\ lastAdmit' = WsOutcome(req, 101, TRUE)
                 /\ handlersCreated' = handlersCreated + 1
                 /\ wsActive' = wsActive \cup
                       {[client |-> authCount + 1, dev |-> req.dev,
                         tokDev |-> req.auth.dev]}
    /\ UNCHANGED <<mqAuthToken, mqConnections, mqHandlers, mqOnline>>
    /\ AuthFrame

\* the goroutine started by handleWebSocket ends: activeConnections.Delete,
\* handler.Close, SetSessionOffline
WsHandlerEnd ==
    /\ \E h \in wsActive : wsActive' = wsActive \ {h}
    /\ UNCHANGED <<lastAdmit, handlersCreated, authCount, mqAuthToken,
                   mqConnections, mqHandlers, mqOnline>>
    /\ AuthFrame

\* MQTTTransport.onMessage: key := deviceID + ":" + sessionID
ConnKey(dev, sess) == dev \o ":" \o sess

\* the first message of a key as json.Unmarshal sees it: "raw" is not a JSON
\* object, "nohdr" has no headers, "hdr" has headers (with or without Token)
MqttMessages ==
    {[dev |-> d, sess |-> s, shape |-> sh, token |-> [kind |-> "none", dev |-> ""],
      inner |-> FALSE, udp |-> FALSE] :
        d \in DeviceIds, s \in SessionIds, sh \in {"raw", "nohdr"}}
    \cup [dev : DeviceIds, sess : SessionIds, shape : {"hdr"}, token : Tokens,
          inner : BOOLEAN, udp : BOOLEAN]

\* a handshake that would accept any verifiable token
MqttAuthAnyDevice(msg) ==
    IF msg.shape = "raw" THEN "bad_json"
    ELSE IF msg.shape = "nohdr" THEN "no_headers"
    ELSE IF msg.token.kind = "none" THEN "no_token"
    ELSE IF ~mqAuthToken THEN "no_verifier"
    ELSE IF ~VerifyToken(msg.token).valid THEN "bad_token"
    ELSE "ok"

\* onMessage's checks of a first message, in the order of the code
MqttAuth(msg) ==
    IF msg.shape = "raw" THEN "bad_json"
    ELSE IF msg.shape = "nohdr" THEN "no_headers"
    ELSE IF msg.token.kind = "none" THEN "no_token"
    ELSE IF ~mqAuthToken THEN "no_verifier"
    ELSE IF ~VerifyToken(msg.token).valid THEN "bad_token"
    ELSE IF VerifyToken(msg.token).deviceID # msg.dev THEN "device_mismatch"
    ELSE "ok"

\* what onMessage leaves behind: frames is the number of sendErrorResponse calls
\* (each publishes one frame with code AUTH_FAILED)
MqOutcome(msg, first, outcome, frames, created, pushed) ==
    [via |-> "mqtt", msg |-> msg, first |-> first, outcome |-> outcome,
     frames |-> frames, created |-> created, pushed |-> pushed]

\* MQTTTransport.onMessage, one message on prefix/{dev}/{sess}/in
OnMessage ==
    /\ authCount < MaxAuthMsgs
    /\ authCount' = authCount + 1
    /\ \E msg \in MqttMessages :
         LET key == ConnKey(msg.dev, msg.sess)
         IN  IF key \in mqConnections
             THEN \* PushIncoming and TouchSession
                  /\ lastAdmit' = MqOutcome(msg, FALSE, "delivered", 0, FALSE, TRUE)
                  /\ UNCHANGED <<mqConnections, mqHandlers, mqOnline, handlersCreated>>
             ELSE IF MqttAuth(msg) # "ok"
             THEN /\ lastAdmit' = MqOutcome(msg, TRUE, MqttAuth(msg), 1, FALSE, FALSE)
                  /\ UNCHANGED <<mqConnections, mqHandlers, mqOnline, handlersCreated>>
             ELSE \/ \* newConnection or CreateHandler returns nil
                     /\ lastAdmit' = MqOutcome(msg, TRUE, "no_handler", 0, FALSE, FALSE)
                     /\ UNCHANGED <<mqConnections, mqHandlers, mqOnline,
                                    handlersCreated>>
                  \/ \* the handler is created; a failing UDPServer.CreateSession
                     \* makes sendErrorResponse publish a frame
                     /\ \E udpOk \in {TRUE} \cup {~msg.udp} :
                          lastAdmit' = MqOutcome(msg, TRUE, "ok",
                                                 IF udpOk THEN 0 ELSE 1, TRUE, msg.inner)
                     /\ handlersCreated' = handlersCreated + 1
                     /\ mqConnections' = mqConnections \cup {key}
                     /\ mqHandlers' = mqHandlers \cup
                           {[key |-> key, dev |-> msg.dev, sess |-> msg.sess,
                             tokDev |-> msg.token.dev]}
                     /\ mqOnline' = mqOnline \cup {<<msg.dev, msg.sess>>}
    /\ UNCHANGED <<wsActive, mqAuthToken>>
    /\ AuthFrame

\* the goroutine started by onMessage ends: handlers.Delete, connections.Delete,
\* handler.Close, SetSessionOffline
MqttHandlerEnd ==
    /\ \E h \in mqHandlers :
         /\ mqHandlers' = mqHandlers \ {h}
         /\ mqConnections' = mqConnections \ {h.key}
         /\ mqOnline' = mqOnline \ {<<h.dev, h.sess>>}
    /\ UNCHANGED <<wsActive, lastAdmit, handlersCreated, authCount, mqAuthToken>>
    /\ AuthFrame

AuthInit(verifiers) ==
    /\ wsActive = {}
    /\ lastAdmit = NoAdmission
    /\ handlersCreated = 0
    /\ authCount = 0
    /\ mqAuthToken \in verifiers
    /\ mqConnections = {}
    /\ mqHandlers = {}
    /\ mqOnline = {}

(***************************************************************************)
(* MQTTTransport.onMessage on one (device, session) key: the lookup, the   *)
(* creation of the session and the end of its goroutine.                   *)
(***************************************************************************)
\* invocations of the subscription callback that can be in progress at once
Callbacks == {"cb1", "cb2"}

HandlerIds == 1..MaxKeyHandlers

\* onMessage up to the lookup: _, exists := t.connections.Load(key).  For a key
\* that exists the message is pushed to its connection; for a new key the first
\* message is authenticated, and refused or taken on
OnMessageLoad(cb) ==
    /\ cbPc[cb] = "idle"
    /\ keyMsgs < MaxKeyMsgs
    /\ keyMsgs' = keyMsgs + 1
    /\ IF keyStored # 0
       THEN UNCHANGED cbPc
       ELSE \/ cbPc' = [cbPc EXCEPT ![cb] = "create"]
            \/ UNCHANGED cbPc
    /\ UNCHANGED <<keyStored, handlerStage, keyCreated>>
    /\ KeyFrame

\* onMessage for a new key, after the handshake: newConnection, CreateHandler,
\* t.connections.Store, t.handlers.Store, SetSessionOnline, go handler.Handle()
OnMessageStore(cb) ==
    /\ cbPc[cb] = "create"
    /\ keyCreated < MaxKeyHandlers
    /\ keyCreated' = keyCreated + 1
    /\ keyStored' = keyCreated + 1
    /\ handlerStage' = [handlerStage EXCEPT ![keyCreated + 1] = "run"]
    /\ cbPc' = [cbPc EXCEPT ![cb] = "idle"]
    /\ UNCHANGED keyMsgs
    /\ KeyFrame

\* handler.Handle() returns; the goroutine's deferred function deletes the
\* key from t.handlers and t.connections, whatever is stored under it
HandlerReturn(n) ==
    /\ handlerStage[n] = "run"
    /\ handlerStage' = [handlerStage EXCEPT ![n] = "closing"]
    /\ keyStored' = 0
    /\ UNCHANGED <<cbPc, keyMsgs, keyCreated>>
    /\ KeyFrame

\* the deferred function goes on: handler.Close(), SetSessionOffline
HandlerClose(n) ==
    /\ handlerStage[n] = "closing"
    /\ handlerStage' = [handlerStage EXCEPT ![n] = "closed"]
    /\ UNCHANGED <<cbPc, keyStored, keyMsgs, keyCreated>>
    /\ KeyFrame

\* a transport that has seen no message of the key
KeyInit ==
    /\ cbPc = [cb \in Callbacks |-> "idle"]
    /\ keyStored = 0
    /\ handlerStage = [n \in HandlerIds |-> "none"]
    /\ keyMsgs = 0
    /\ keyCreated = 0

(***************************************************************************)
(* The PresenceManager's record of one device.                             *)
(***************************************************************************)
PresenceSessions == {"s1", "s2"}

\* PresenceManager.SetSessionOnline
SetSessionOnline(s) ==
    /\ presenceOps < MaxPresenceOps
    /\ presenceOps' = presenceOps + 1
    /\ dpKnown' = TRUE
    /\ dpSessions' = [dpSessions EXCEPT ![s] = "online"]
    /\ dpOnline' = TRUE
    /\ PresenceFrame

\* PresenceManager.SetSessionOffline: nothing for a device it does not know;
\* otherwise the session, if known, goes offline and the device is online
\* exactly if a session is
SetSessionOffline(s) ==
    /\ presenceOps < MaxPresenceOps
    /\ presenceOps' = presenceOps + 1
    /\ IF ~dpKnown
       THEN UNCHANGED <<dpKnown, dpSessions, dpOnline>>
       ELSE /\ dpSessions' = IF dpSessions[s] = "absent" THEN dpSessions
                             ELSE [dpSessions EXCEPT ![s] = "offline"]
            /\ dpOnline' = (\E t \in PresenceSessions : dpSessions'[t] = "online")
            /\ UNCHANGED dpKnown
    /\ PresenceFrame

\* PresenceManager.UpdateHeartbeat
UpdateHeartbeat ==
    /\ presenceOps < MaxPresenceOps
    /\ presenceOps' = presenceOps + 1
    /\ dpKnown' = TRUE
    /\ dpOnline' = TRUE
    /\ UNCHANGED dpSessions
    /\ PresenceFrame

\* PresenceManager.SetDeviceConnectionState
SetDeviceConnectionState(online) ==
    /\ presenceOps < MaxPresenceOps
    /\ presenceOps' = presenceOps + 1
    /\ dpKnown' = TRUE
    /\ dpOnline' = online
    /\ UNCHANGED dpSessions
    /\ PresenceFrame

\* defaultPresenceManager: no device
PresenceInit ==
    /\ dpKnown = FALSE
    /\ dpOnline = FALSE
    /\ dpSessions = [s \in PresenceSessions |-> "absent"]
    /\ presenceOps = 0

(***************************************************************************)
(* Audio over UDP: UDPServer.processPacket, the UDP-format binary messages *)
(* of an MQTT connection, and UDPSession.Decrypt.                          *)
(***************************************************************************)
\* a packet with a 16-byte nonce whose first byte is 0x01: its sequence number,
\* whether the nonce's length field matches the body, whether there is a body
UdpPackets == [seq : 0..MaxSeq, lenOk : BOOLEAN, body : BOOLEAN]

\* source addresses a packet of the session can come from (NAT rebinding, or
\* anybody who has seen the connection id)
UdpAddrs == {"addr1", "addr2"}

Max(a, b) == IF a >= b THEN a ELSE b

\* a Decrypt that would take any sequence number
DecryptAnySeq(pkt) ==
    IF udpStatus # "active" THEN "closed"
    ELSE IF ~pkt.lenOk THEN "bad_len"
    ELSE "ok"

\* UDPSession.Decrypt: why the packet is refused, or "ok"
Decrypt(pkt) ==
    IF udpStatus # "active" THEN "closed"
    ELSE IF ~pkt.lenOk THEN "bad_len"
    ELSE IF udpRemoteSeq > 0 /\ pkt.seq < udpRemoteSeq THEN "bad_seq"
    ELSE "ok"

\* a packet as the recognizer will get it: decrypted audio ("plain"), the bytes
\* behind the nonce as they came ("cipher"), the nonce itself ("nonce") or no
\* bytes ("empty"); late records whether a higher sequence number had been
\* accepted on the session when the packet arrived, dup whether the packet's own
\* sequence number was the last one accepted
Heard(pkt, form, path) ==
    [seq |-> pkt.seq, form |-> form, path |-> path,
     late |-> udpHigh >= 0 /\ pkt.seq < udpHigh,
     dup |-> pkt.seq = udpHigh]

\* the highest sequence number seen on the session, after this packet
Seen(pkt) ==
    IF udpStatus = "active" /\ pkt.lenOk THEN Max(udpHigh, pkt.seq) ELSE udpHigh

\* processPacket's address bookkeeping, done once getSessionByNonce has found the
\* session and before Decrypt is called
LearnAddr(addr, verdict) ==
    IF udpStatus # "active" \/ udpRemoteAddr = addr
    THEN UNCHANGED <<udpRemoteAddr, udpAddr2Session, udpAddrBy>>
    ELSE /\ udpRemoteAddr' = addr
         /\ udpAddr2Session' = (udpAddr2Session \ {udpRemoteAddr}) \cup {addr}
         /\ udpAddrBy' = verdict

\* UDPServer.processPacket for a packet of the session: the address bookkeeping,
\* Decrypt, then RecvData (non-blocking; a full RecvChannel drops the packet)
ProcessPacket ==
    /\ udpCount < MaxPackets
    /\ udpCount' = udpCount + 1
    /\ \E pkt \in UdpPackets, addr \in UdpAddrs :
         /\ LearnAddr(addr, Decrypt(pkt))
         /\ udpHigh' = Seen(pkt)
         /\ IF Decrypt(pkt) = "ok"
            THEN /\ udpRemoteSeq' = pkt.seq
                 /\ udpRecvChannel' =
                       IF Len(udpRecvChannel) < MaxQueue
                       THEN Append(udpRecvChannel, Heard(pkt, "plain", "udp"))
                       ELSE udpRecvChannel
            ELSE UNCHANGED <<udpRemoteSeq, udpRecvChannel>>
    /\ UNCHANGED <<udpStatus, mqIncoming, heard>>
    /\ UdpFrame

\* what PushIncoming puts on c.incoming for a binary message in UDP format:
\* handleIncomingUDPPacket returns payload[16:] when the session is not active,
\* payload[16:] (the whole payload when it is only a nonce) when Decrypt refuses
\* the packet, and the decrypted audio when RecvChannel is full
Fallback(pkt) ==
    IF Decrypt(pkt) = "ok" THEN <<Heard(pkt, "plain", "mqtt")>>
    ELSE IF pkt.body THEN <<Heard(pkt, "cipher", "mqtt")>>
    ELSE IF Decrypt(pkt) = "closed" THEN <<Heard(pkt, "empty", "mqtt")>>
    ELSE <<Heard(pkt, "nonce", "mqtt")>>

\* MQTTConnection.PushIncoming(2, data) with data in UDP format
PushIncoming ==
    /\ udpCount < MaxPackets
    /\ udpCount' = udpCount + 1
    /\ \E pkt \in UdpPackets :
         /\ udpHigh' = Seen(pkt)
         /\ udpRemoteSeq' = IF Decrypt(pkt) = "ok" THEN pkt.seq ELSE udpRemoteSeq
         /\ IF Decrypt(pkt) = "ok" /\ Len(udpRecvChannel) < MaxQueue
            THEN /\ udpRecvChannel' = Append(udpRecvChannel, Heard(pkt, "plain", "mqtt"))
                 /\ UNCHANGED mqIncoming
            ELSE /\ mqIncoming' = IF Len(mqIncoming) < MaxQueue
                                  THEN mqIncoming \o Fallback(pkt)
                                  ELSE mqIncoming
                 /\ UNCHANGED udpRecvChannel
    /\ UNCHANGED <<udpStatus, heard, udpRemoteAddr, udpAddr2Session, udpAddrBy>>
    /\ UdpFrame

\* MQTTConnection.ReadMessage: the session's reader takes a binary message from
\* c.incoming, or from RecvChannel while the UDP session is active, and hands it
\* to the audio path
ReadMessage ==
    /\ \/ /\ mqIncoming # <<>>
          /\ heard' = heard \cup {Head(mqIncoming)}
          /\ mqIncoming' = Tail(mqIncoming)
          /\ UNCHANGED udpRecvChannel
       \/ /\ udpStatus = "active"
          /\ udpRecvChannel # <<>>
          /\ heard' = heard \cup {Head(udpRecvChannel)}
          /\ udpRecvChannel' = Tail(udpRecvChannel)
          /\ UNCHANGED mqIncoming
    /\ UNCHANGED <<udpStatus, udpRemoteSeq, udpHigh, udpCount, udpRemoteAddr,
                   udpAddr2Session, udpAddrBy>>
    /\ UdpFrame

\* UDPServer.CloseSession: UDPSession.Destroy, then the session leaves both maps
CloseSession ==
    /\ udpStatus = "active"
    /\ udpStatus' = "closed"
    /\ udpAddr2Session' = udpAddr2Session \ {udpRemoteAddr}
    /\ UNCHANGED <<udpRemoteSeq, udpHigh, udpRecvChannel, mqIncoming, heard, udpCount,
                   udpRemoteAddr, udpAddrBy>>
    /\ UdpFrame

UdpInit ==
    /\ udpStatus = "active"
    /\ udpRemoteSeq = 0
    /\ udpHigh = -1
    /\ udpRecvChannel = <<>>
    /\ mqIncoming = <<>>
    /\ heard = {}
    /\ udpCount = 0
    /\ udpRemoteAddr = ""
    /\ udpAddr2Session = {}
    /\ udpAddrBy = "none"

(***************************************************************************)
(* UDPSession.Destroy against SendAudioData and RecvData.                  *)
(***************************************************************************)
\* the two calls that send on a channel of the session, and the channel of each
SessCallers == {"SendAudioData", "RecvData"}

ChannelOf(c) == IF c = "SendAudioData" THEN "SendChannel" ELSE "RecvChannel"

SessChannels == {"RecvChannel", "SendChannel"}

\* SendAudioData / RecvData, the check: s.Status is read without the mutex
SessCheck(c) ==
    /\ ~sessPanicked
    /\ sessPc[c] = "idle"
    /\ sessCalls < MaxSessCalls
    /\ sessCalls' = sessCalls + 1
    /\ IF sessStatus # "active"
       THEN /\ sessResults' = sessResults \cup {[fn |-> c, result |-> "closed"]}
            /\ UNCHANGED sessPc
       ELSE /\ sessPc' = [sessPc EXCEPT ![c] = "select"]
            /\ UNCHANGED sessResults
    /\ UNCHANGED <<sessStatus, chanLen, chanClosed, destroyPc, destroys, sessPanicked>>
    /\ DestroyFrame

\* SendAudioData / RecvData, the select: a send that cannot proceed takes the
\* default case; a send on a closed channel panics
SessSelect(c) ==
    /\ ~sessPanicked
    /\ sessPc[c] = "select"
    /\ sessPc' = [sessPc EXCEPT ![c] = "idle"]
    /\ IF chanClosed[ChannelOf(c)]
       THEN /\ sessPanicked' = TRUE
            /\ UNCHANGED <<chanLen, sessResults>>
       ELSE IF chanLen[ChannelOf(c)] < MaxQueue
       THEN /\ chanLen' = [chanLen EXCEPT ![ChannelOf(c)] = @ + 1]
            /\ sessResults' = sessResults \cup {[fn |-> c, result |-> "sent"]}
            /\ UNCHANGED sessPanicked
       ELSE /\ sessResults' = sessResults \cup {[fn |-> c, result |-> "full"]}
            /\ UNCHANGED <<chanLen, sessPanicked>>
    /\ UNCHANGED <<sessStatus, chanClosed, destroyPc, destroys, sessCalls>>
    /\ DestroyFrame

\* the reader of a channel takes one element (ReadMessage from RecvChannel,
\* the UDP sender from SendChannel)
SessDrain(ch) ==
    /\ ~sessPanicked
    /\ chanLen[ch] > 0
    /\ chanLen' = [chanLen EXCEPT ![ch] = @ - 1]
    /\ UNCHANGED <<sessStatus, chanClosed, sessPc, destroyPc, destroys, sessCalls,
                   sessResults, sessPanicked>>
    /\ DestroyFrame

\* Destroy under s.mu: a closed session returns, otherwise Status = "closed"
DestroyStatus ==
    /\ ~sessPanicked
    /\ destroyPc = "idle"
    /\ destroys < MaxDestroys
    /\ destroys' = destroys + 1
    /\ IF sessStatus = "closed"
       THEN UNCHANGED <<sessStatus, destroyPc>>
       ELSE /\ sessStatus' = "closed"
            /\ destroyPc' = "RecvChannel"
    /\ UNCHANGED <<chanLen, chanClosed, sessPc, sessCalls, sessResults, sessPanicked>>
    /\ DestroyFrame

\* Destroy: close(s.RecvChannel), then close(s.SendChannel)
DestroyClose ==
    /\ ~sessPanicked
    /\ destroyPc \in SessChannels
    /\ chanClosed' = [chanClosed EXCEPT ![destroyPc] = TRUE]
    /\ destroyPc' = IF destroyPc = "RecvChannel" THEN "SendChannel" ELSE "idle"
    /\ UNCHANGED <<sessStatus, chanLen, sessPc, destroys, sessCalls, sessResults,
                   sessPanicked>>
    /\ DestroyFrame

\* NewUDPSession
DestroyInit ==
    /\ sessStatus = "active"
    /\ chanLen = [ch \in SessChannels |-> 0]
    /\ chanClosed = [ch \in SessChannels |-> FALSE]
    /\ sessPc = [c \in SessCallers |-> "idle"]
    /\ destroyPc = "idle"
    /\ destroys = 0
    /\ sessCalls = 0
    /\ sessResults = {}
    /\ sessPanicked = FALSE

(***************************************************************************)
(* MQTTConnection.Close against PushIncoming.                              *)
(***************************************************************************)
\* callers of Close: Handle's deferred conn.Close() and the transport
ConnClosers == {"handler", "transport"}

\* PushIncoming, the check: atomic.LoadInt32(&c.closed); a binary message that
\* handleIncomingUDPPacket takes is not pushed
PushCheck ==
    /\ ~connPanicked
    /\ pushPc = "idle"
    /\ pushes < MaxPushes
    /\ pushes' = pushes + 1
    /\ \/ /\ connClosedFlag = 0
          /\ pushPc' = "select"
       \/ /\ connClosedFlag = 0
          /\ UNCHANGED pushPc
       \/ /\ connClosedFlag = 1
          /\ UNCHANGED pushPc
    /\ UNCHANGED <<connClosedFlag, incomingLen, incomingClosed, connClosePc, connPanicked>>
    /\ ConnFrame

\* PushIncoming, the select: the send, or the default case on a full queue; a
\* send on the closed channel panics
PushSelect ==
    /\ ~connPanicked
    /\ pushPc = "select"
    /\ pushPc' = "idle"
    /\ IF incomingClosed
       THEN /\ connPanicked' = TRUE
            /\ UNCHANGED incomingLen
       ELSE /\ incomingLen' = IF incomingLen < MaxQueue THEN incomingLen + 1 ELSE incomingLen
            /\ UNCHANGED connPanicked
    /\ UNCHANGED <<connClosedFlag, incomingClosed, connClosePc, pushes>>
    /\ ConnFrame

\* ReadMessage takes a message from c.incoming
ReadIncoming ==
    /\ ~connPanicked
    /\ incomingLen > 0
    /\ incomingLen' = incomingLen - 1
    /\ UNCHANGED <<connClosedFlag, incomingClosed, connClosePc, pushPc, pushes, connPanicked>>
    /\ ConnFrame

\* Close: atomic.CompareAndSwapInt32(&c.closed, 0, 1)
ConnCloseSwap(p) ==
    /\ ~connPanicked
    /\ connClosePc[p] = "idle"
    /\ IF connClosedFlag = 0
       THEN /\ connClosedFlag' = 1
            /\ connClosePc' = [connClosePc EXCEPT ![p] = "close"]
       ELSE /\ connClosePc' = [connClosePc EXCEPT ![p] = "done"]
            /\ UNCHANGED connClosedFlag
    /\ UNCHANGED <<incomingLen, incomingClosed, pushPc, pushes, connPanicked>>
    /\ ConnFrame

\* Close: close(c.incoming) under c.mu
ConnCloseChan(p) ==
    /\ ~connPanicked
    /\ connClosePc[p] = "close"
    /\ incomingClosed' = TRUE
    /\ connClosePc' = [connClosePc EXCEPT ![p] = "done"]
    /\ UNCHANGED <<connClosedFlag, incomingLen, pushPc, pushes, connPanicked>>
    /\ ConnFrame

\* NewMQTTConnection
ConnInit ==
    /\ connClosedFlag = 0
    /\ incomingLen = 0
    /\ incomingClosed = FALSE
    /\ pushPc = "idle"
    /\ pushes = 0
    /\ connClosePc = [p \in ConnClosers |-> "idle"]
    /\ connPanicked = FALSE

(***************************************************************************)
(* One LLM turn and the dialogue: handleChatMessage, genResponseByLLM,     *)
(* handleFunctionResult, addToolCallMessage and the DialogueManager.       *)
(***************************************************************************)
\* the goroutines that run handleChatMessage on one session: the recognizer's
\* callback (OnAsrResult) and the text worker (processClientTextMessage); the
\* dialogue has no lock
Talkers == {"asr", "text"}

\* message contents: empty, only white space, text
Contents == {"", " ", "t"}

\* what handleFunctionResult switches on
Actions == {"error", "not_found", "none", "response", "call_handler", "req_llm"}

\* chat.Message: call is the id of the tool call an assistant message carries or
\* a tool message answers, 0 for none
Msg(role, content, call) == [role |-> role, content |-> content, call |-> call]

\* a Put that would persist every message with a non-empty content
PersistedNonEmpty(m) == m.role \in {"user", "assistant"} /\ m.content # ""

\* DialogueManager.Put's condition for SaveMemory: user or assistant, and
\* strings.TrimSpace(content) not empty
Persisted(m) == m.role \in {"user", "assistant"} /\ m.content \notin {"", " "}

\* DialogueManager.Put, on the dialogue and on the rows the backend receives
\* (PostgresMemory.SaveMemory creates one row per message it is given)
PutDialogue(d, m) == Append(d, m)

PutSaved(s, m) ==
    IF Persisted(m) THEN Append(s, [role |-> m.role, content |-> m.content]) ELSE s

\* DialogueManager.RemoveSecondMessageForToolType
RemoveSecondMessageForToolType(d) ==
    IF Len(d) < 2 \/ d[2].role # "tool" THEN d
    ELSE <<d[1]>> \o SubSeq(d, 3, Len(d))

\* DialogueManager.KeepRecentMessages
KeepRecentMessages(d, n) ==
    IF n <= 0 \/ Len(d) <= n THEN d
    ELSE IF d[1].role = "system"
    THEN RemoveSecondMessageForToolType(<<d[1]>> \o SubSeq(d, Len(d) - n + 1, Len(d)))
    ELSE SubSeq(d, Len(d) - n + 1, Len(d))

\* what a goroutine's turn has done: the round, the calls of genResponseByLLM,
\* the call that got the tool call (at), the tool's action, result and id, what
\* has been spoken, how the last genResponseByLLM ended, what a re-entered
\* genResponseByLLM was given, and whether the result handler ran
NoTurn ==
    [round |-> 0, invokes |-> 0, at |-> 0, action |-> "", result |-> "", call |-> 0,
     said |-> {}, end |-> "none", seen |-> "none", handler |-> FALSE]

\* what a dialogue given to a re-entered genResponseByLLM holds of the tool call
\* that caused the re-entry
SeenByLLM(d, call) ==
    IF /\ Len(d) >= 2
       /\ d[Len(d) - 1] = Msg("assistant", "", call)
       /\ d[Len(d)].role = "tool" /\ d[Len(d)].call = call
    THEN "last"
    ELSE IF \E i, j \in DOMAIN d :
              /\ i < j
              /\ d[i] = Msg("assistant", "", call)
              /\ d[j].role = "tool" /\ d[j].call = call
    THEN "inside"
    ELSE "missing"

\* handleChatMessage up to the call of genResponseByLLM: a new round, Put of the
\* user's message
HandleChatMessage(g) ==
    /\ tpc[g] = "idle"
    /\ turns < MaxTurns
    /\ turns' = turns + 1
    /\ dlgRound' = dlgRound + 1
    /\ \E text \in Contents \ {""} :
         /\ dialogue' = PutDialogue(dialogue, Msg("user", text, 0))
         /\ saved' = PutSaved(saved, Msg("user", text, 0))
    /\ tloc' = [tloc EXCEPT ![g] = [NoTurn EXCEPT !.round = dlgRound + 1]]
    /\ tpc' = [tpc EXCEPT ![g] = "llm"]
    /\ UNCHANGED toolCalls
    /\ TurnFrame

\* genResponseByLLM from ResponseWithFunctions to the end of the stream
GenResponseByLLM(g) ==
    /\ tpc[g] = "llm"
    /\ LET t == [tloc[g] EXCEPT
                    !.invokes = @ + 1,
                    !.seen = IF tloc[g].invokes = 0 THEN "none"
                             ELSE SeenByLLM(dialogue, tloc[g].call)]
       IN  \/ \* ResponseWithFunctions returns an error
              /\ tloc' = [tloc EXCEPT ![g] =
                            [t EXCEPT !.end = "call_fail"]]
              /\ tpc' = [tpc EXCEPT ![g] = "idle"]
              /\ UNCHANGED <<dialogue, saved, toolCalls>>
           \/ \* the stream yields an error chunk: the apology is spoken
              /\ tloc' = [tloc EXCEPT ![g] =
                            [t EXCEPT !.end = "err_chunk",
                                      !.said = @ \cup {"apology"}]]
              /\ tpc' = [tpc EXCEPT ![g] = "idle"]
              /\ UNCHANGED <<dialogue, saved, toolCalls>>
           \/ \* the stream ends without a tool call: the segments are spoken
              \* and the reply is Put
              \E content \in Contents :
                 /\ dialogue' = PutDialogue(dialogue, Msg("assistant", content, 0))
                 /\ saved' = PutSaved(saved, Msg("assistant", content, 0))
                 /\ tloc' = [tloc EXCEPT ![g] =
                               [t EXCEPT !.end = "text",
                                         !.said = IF content = "" THEN @
                                                  ELSE @ \cup {"segment"}]]
                 /\ tpc' = [tpc EXCEPT ![g] = "idle"]
                 /\ UNCHANGED toolCalls
           \/ \* the stream carries a tool call, which is executed
              /\ toolCalls < MaxToolCalls
              /\ toolCalls' = toolCalls + 1
              /\ \E a \in Actions, r \in {"", "t"} :
                    tloc' = [tloc EXCEPT ![g] =
                               [t EXCEPT !.action = a, !.result = r,
                                         !.call = toolCalls + 1,
                                         !.at = t.invokes,
                                         !.handler = FALSE,
                                         !.end = "tool"]]
              /\ tpc' = [tpc EXCEPT ![g] = "result"]
              /\ UNCHANGED <<dialogue, saved>>
    /\ UNCHANGED <<dlgRound, turns>>
    /\ TurnFrame

\* handleFunctionResult's switch
HandleFunctionResult(g) ==
    /\ tpc[g] = "result"
    /\ LET a == tloc[g].action
       IN  IF a \in {"error", "not_found", "none"}
           THEN \* logged
                tloc' = tloc /\ tpc' = [tpc EXCEPT ![g] = "idle"]
           ELSE IF a = "response"
           THEN /\ tloc' = [tloc EXCEPT ![g].said = @ \cup {"system"}]
                /\ tpc' = [tpc EXCEPT ![g] = "idle"]
           ELSE IF a = "call_handler"
           THEN /\ tloc' = [tloc EXCEPT ![g].handler = TRUE]
                /\ tpc' = [tpc EXCEPT ![g] = "put_call"]
           ELSE IF tloc[g].result # ""
           THEN tloc' = tloc /\ tpc' = [tpc EXCEPT ![g] = "put_call"]
           ELSE \* the result cannot be used: SystemSpeak of an error message
                /\ tloc' = [tloc EXCEPT ![g].said = @ \cup {"system"}]
                /\ tpc' = [tpc EXCEPT ![g] = "idle"]
    /\ UNCHANGED <<dialogue, saved, dlgRound, turns, toolCalls>>
    /\ TurnFrame

\* addToolCallMessage, first Put: the assistant message with the tool call
AddToolCallAssistant(g) ==
    /\ tpc[g] = "put_call"
    /\ dialogue' = PutDialogue(dialogue, Msg("assistant", "", tloc[g].call))
    /\ saved' = PutSaved(saved, Msg("assistant", "", tloc[g].call))
    /\ tpc' = [tpc EXCEPT ![g] = "put_tool"]
    /\ UNCHANGED <<tloc, dlgRound, turns, toolCalls>>
    /\ TurnFrame

\* addToolCallMessage, second Put: the tool message, whose content is the
\* result for req_llm and what handleMCPResultCall returned for call_handler;
\* after it req_llm re-enters genResponseByLLM with h.talkRound, call_handler
\* returns
AddToolCallTool(g) ==
    /\ tpc[g] = "put_tool"
    /\ \E text \in (IF tloc[g].action = "req_llm" THEN {tloc[g].result}
                     ELSE {"", "t"}) :
         /\ dialogue' = PutDialogue(dialogue, Msg("tool", text, tloc[g].call))
         /\ saved' = PutSaved(saved, Msg("tool", text, tloc[g].call))
    /\ IF tloc[g].action = "req_llm"
       THEN /\ tpc' = [tpc EXCEPT ![g] = "llm"]
            /\ tloc' = [tloc EXCEPT ![g].round = dlgRound]
       ELSE /\ tpc' = [tpc EXCEPT ![g] = "idle"]
            /\ tloc' = tloc
    /\ UNCHANGED <<dlgRound, turns, toolCalls>>
    /\ TurnFrame

\* the history is truncated between turns
Truncate ==
    /\ \A g \in Talkers : tpc[g] = "idle"
    /\ \E n \in 1..MaxKeep :
         /\ Len(dialogue) > n
         /\ dialogue' = KeepRecentMessages(dialogue, n)
    /\ UNCHANGED <<saved, tpc, tloc, dlgRound, turns, toolCalls>>
    /\ TurnFrame

\* a session with or without a system prompt (SetSystemMessage at construction)
TurnInit ==
    /\ dialogue \in {<<>>, <<Msg("system", "t", 0)>>}
    /\ saved = <<>>
    /\ tpc = [g \in Talkers |-> "idle"]
    /\ tloc = [g \in Talkers |-> NoTurn]
    /\ dlgRound = 0
    /\ turns = 0
    /\ toolCalls = 0

(***************************************************************************)
(* The chain of LLM invocations that answers one utterance.                *)
(***************************************************************************)
\* the value a counter of the chain stops growing at
Saturated(n) == IF n < MaxCounted THEN n + 1 ELSE n

\* handleChatMessage hands the utterance to genResponseByLLM
ChainStart ==
    /\ chainPc = "idle"
    /\ chainDone < MaxChainTurns
    /\ chainPc' = "llm"
    /\ llmCalls' = 1
    /\ UNCHANGED <<chainAction, chainDone>>
    /\ ChainFrame

\* genResponseByLLM reads the stream to its end: an answer without tool call
\* (or a tool call whose arguments cannot be parsed, or a function nobody
\* provides) ends the chain; a tool call is executed and its result handed to
\* handleFunctionResult
ChainStream ==
    /\ chainPc = "llm"
    /\ \/ /\ chainPc' = "idle"
          /\ chainDone' = chainDone + 1
          /\ UNCHANGED chainAction
       \/ /\ \E a \in Actions :
               chainAction' = a
          /\ chainPc' = "tool"
          /\ UNCHANGED chainDone
    /\ UNCHANGED llmCalls
    /\ ChainFrame

\* handleFunctionResult: a result for the LLM with a text re-enters
\* genResponseByLLM; every other result returns
ChainResult ==
    /\ chainPc = "tool"
    /\ \/ /\ chainAction = "req_llm"
          /\ chainPc' = "llm"
          /\ llmCalls' = Saturated(llmCalls)
          /\ UNCHANGED chainDone
       \/ /\ chainPc' = "idle"
          /\ chainDone' = chainDone + 1
          /\ UNCHANGED llmCalls
    /\ UNCHANGED chainAction
    /\ ChainFrame

ChainInit ==
    /\ chainPc = "idle"
    /\ llmCalls = 0
    /\ chainAction = "none"
    /\ chainDone = 0

(***************************************************************************)
(* The stream segmenter of genResponseByLLM for a stream without tool call *)
(* and without error chunk.                                                *)
(***************************************************************************)
\* characters of the content: a letter, a sentence terminator, white space
Chars == {"a", ".", " "}

\* the content of one chunk; the empty chunk carries no content
Chunks == UNION {[1..n -> Chars] : n \in 0..MaxChunkLen}

\* strings.TrimSpace
RECURSIVE TrimLeft(_)
TrimLeft(s) == IF s # <<>> /\ Head(s) = " " THEN TrimLeft(Tail(s)) ELSE s

RECURSIVE TrimRight(_)
TrimRight(s) ==
    IF s # <<>> /\ s[Len(s)] = " " THEN TrimRight(SubSeq(s, 1, Len(s) - 1)) ELSE s

TrimSpace(s) == TrimRight(TrimLeft(s))

\* utils.SplitAtLastPunctuation: the number of characters up to and including
\* the last terminator of the text, 0 when it has none
SplitAtLastPunctuation(text) ==
    LET at == {i \in DOMAIN text : text[i] = "."}
    IN  IF at = {} THEN 0 ELSE CHOOSE i \in at : \A j \in at : j <= i

\* one SpeakAndPlay call: the segment's index and text, and the part of the
\* content the text was cut from
Spoken(index, text, from, to) ==
    [index |-> index, text |-> text, from |-> from, to |-> to]

\* a flush that would happen only when nothing has been emitted yet
RemainingIfFirst(full, processed) ==
    IF processed = 0 THEN SubSeq(full, 1, Len(full)) ELSE <<>>

\* the text left behind the cursor when the stream has ended
Remaining(full, processed) ==
    IF Len(full) > processed THEN SubSeq(full, processed + 1, Len(full)) ELSE <<>>

\* the body of the loop over the stream for one chunk
StreamChunk ==
    /\ segPc = "stream"
    /\ chunks < MaxChunks
    /\ chunks' = chunks + 1
    /\ \E content \in Chunks :
         LET fullText == responseMessage \o content
             currentText == SubSeq(fullText, processedChars + 1, Len(fullText))
             charsCnt == SplitAtLastPunctuation(currentText)
         IN  /\ responseMessage' = fullText
             /\ IF content # <<>> /\ charsCnt > 0
                THEN /\ textIndex' = textIndex + 1
                     /\ spoken' = Append(spoken,
                           Spoken(textIndex + 1,
                                  TrimSpace(SubSeq(currentText, 1, charsCnt)),
                                  processedChars + 1, processedChars + charsCnt))
                     /\ processedChars' = processedChars + charsCnt
                ELSE UNCHANGED <<textIndex, spoken, processedChars>>
    /\ UNCHANGED <<replies, segPc>>
    /\ SegFrame

\* the stream is closed by the provider
StreamClosed ==
    /\ segPc = "stream"
    /\ segPc' = "flush"
    /\ UNCHANGED <<responseMessage, processedChars, textIndex, spoken, replies, chunks>>
    /\ SegFrame

\* the remaining text becomes the last segment
FlushRemaining ==
    /\ segPc = "flush"
    /\ LET remainingText == Remaining(responseMessage, processedChars)
       IN  IF remainingText # <<>>
           THEN /\ textIndex' = textIndex + 1
                /\ spoken' = Append(spoken,
                      Spoken(textIndex + 1, remainingText, processedChars + 1,
                             processedChars + Len(remainingText)))
           ELSE UNCHANGED <<textIndex, spoken>>
    /\ segPc' = "put"
    /\ UNCHANGED <<responseMessage, processedChars, replies, chunks>>
    /\ SegFrame

\* the reply is Put into the dialogue
PutReply ==
    /\ segPc = "put"
    /\ replies' = Append(replies, responseMessage)
    /\ segPc' = "done"
    /\ UNCHANGED <<responseMessage, processedChars, textIndex, spoken, chunks>>
    /\ SegFrame

SegInit ==
    /\ responseMessage = <<>>
    /\ processedChars = 0
    /\ textIndex = 0
    /\ spoken = <<>>
    /\ replies = <<>>
    /\ chunks = 0
    /\ segPc = "stream"

(***************************************************************************)
(* The DialogueManager's operations and the memory backends behind it.     *)
(***************************************************************************)
\* dialogStorage as loadUserDialogueManager reads it: PostgresMemory (also for
\* sqlite), RedisMemory, or no memory at all
Backends == {"postgres", "redis", "none"}

\* messages the session Puts and the storage returns: never a system message
DmMessages ==
    {Msg(r, c, 0) : r \in {"user", "assistant"}, c \in Contents} \cup {Msg("tool", "t", 1)}

\* arrays LoadFromJSON is given
Loaded == {<<>>, <<Msg("user", "t", 0)>>, <<Msg("user", "t", 0), Msg("assistant", "t", 0)>>}

\* MemoryInterface.SaveMemory: PostgresMemory creates one row per message,
\* RedisMemory sets the user's hash field to the array it is given
SaveMemory(b, s, msgs) ==
    IF b = "postgres" THEN s \o msgs
    ELSE IF b = "redis" THEN msgs
    ELSE s

\* DialogueManager.SetSystemMessage
SetSystemMessage ==
    /\ dmOps < MaxDmOps
    /\ dmOps' = dmOps + 1
    /\ \E prompt \in {"", "t"} :
         IF prompt = ""
         THEN UNCHANGED <<dmDialogue, promptSet>>
         ELSE /\ promptSet' = TRUE
              /\ dmDialogue' =
                    IF dmDialogue # <<>> /\ dmDialogue[1].role = "system"
                    THEN [dmDialogue EXCEPT ![1].content = prompt]
                    ELSE <<Msg("system", prompt, 0)>> \o dmDialogue
    /\ UNCHANGED <<store, backend, saves>>
    /\ DmFrame

\* DialogueManager.Put
DmPut ==
    /\ dmOps < MaxDmOps
    /\ dmOps' = dmOps + 1
    /\ \E m \in DmMessages :
         /\ dmDialogue' = PutDialogue(dmDialogue, m)
         /\ IF backend # "none" /\ Persisted(m)
            THEN /\ store' = SaveMemory(backend, store, <<m>>)
                 /\ saves' = saves + 1
            ELSE UNCHANGED <<store, saves>>
    /\ UNCHANGED <<backend, promptSet>>
    /\ DmFrame

\* DialogueManager.KeepRecentMessages
DmKeepRecent ==
    /\ dmOps < MaxDmOps
    /\ dmOps' = dmOps + 1
    /\ \E n \in 0..MaxKeep : dmDialogue' = KeepRecentMessages(dmDialogue, n)
    /\ UNCHANGED <<store, backend, promptSet, saves>>
    /\ DmFrame

\* DialogueManager.LoadFromJSON
LoadFromJSON ==
    /\ dmOps < MaxDmOps
    /\ dmOps' = dmOps + 1
    /\ \E msgs \in Loaded :
         dmDialogue' = IF dmDialogue # <<>> /\ dmDialogue[1].role = "system"
                       THEN <<dmDialogue[1]>> \o msgs
                       ELSE msgs
    /\ UNCHANGED <<store, backend, promptSet, saves>>
    /\ DmFrame

\* DialogueManager.Clear: the dialogue is emptied and ClearMemory removes what
\* the backend holds for the user
DmClear ==
    /\ dmOps < MaxDmOps
    /\ dmOps' = dmOps + 1
    /\ dmDialogue' = <<>>
    /\ store' = <<>>
    /\ saves' = 0
    /\ UNCHANGED <<backend, promptSet>>
    /\ DmFrame

\* NewDialogueManager with the memory loadUserDialogueManager chose
DmInit(backends) ==
    /\ dmDialogue = <<>>
    /\ store = <<>>
    /\ backend \in backends
    /\ promptSet = FALSE
    /\ saves = 0
    /\ dmOps = 0

(***************************************************************************)
(* h.talkRound under the goroutines that dispatch utterances, and the      *)
(* round each TTS task is tagged with.                                     *)
(***************************************************************************)
\* what a goroutine dispatches: the recognizer's callback its results, the text
\* worker chat texts, listen-detect texts and image turns
UtteranceKinds(g) == IF g = "asr" THEN {"asr"} ELSE {"chat", "detect", "image"}

NoUtterance == [kind |-> "", load |-> 0, current |-> 0, round |-> 0, reentries |-> 0]

\* a task on the TTS queue: the round of the utterance it answers, the round it
\* is tagged with, and what enqueued it
TtsTask(owner, tag, by) == [owner |-> owner, tag |-> tag, by |-> by]

\* h.talkRound++ of handleChatMessage and handleImageMessage, first half: the
\* field is read (the increment is neither atomic nor under a lock)
RoundLoad(g) ==
    /\ upc[g] = "idle"
    /\ utterances < MaxUtterances
    /\ utterances' = utterances + 1
    /\ \E k \in UtteranceKinds(g) :
         uloc' = [uloc EXCEPT ![g] = [NoUtterance EXCEPT !.kind = k, !.load = hTalkRound]]
    /\ upc' = [upc EXCEPT ![g] = "store"]
    /\ UNCHANGED <<hTalkRound, pairs, tasks>>
    /\ RoundFrame

\* h.talkRound++, second half: the value read plus one is written
RoundStore(g) ==
    /\ upc[g] = "store"
    /\ hTalkRound' = uloc[g].load + 1
    /\ upc' = [upc EXCEPT ![g] = "current"]
    /\ UNCHANGED <<uloc, utterances, pairs, tasks>>
    /\ RoundFrame

\* currentRound := h.talkRound, then the stt message and tts start; an image
\* turn without a VLLLM provider or without image data returns before them
RoundCurrent(g) ==
    /\ upc[g] = "current"
    /\ \/ /\ uloc' = [uloc EXCEPT ![g].current = hTalkRound, ![g].round = hTalkRound]
          /\ pairs' = Append(pairs, hTalkRound)
          /\ upc' = [upc EXCEPT ![g] = "llm"]
       \/ /\ uloc[g].kind = "image"
          /\ upc' = [upc EXCEPT ![g] = "idle"]
          /\ UNCHANGED <<uloc, pairs>>
    /\ UNCHANGED <<hTalkRound, utterances, tasks>>
    /\ RoundFrame

\* genResponseByLLM(..., round) to its end: segments are spoken with the round
\* it was given; a tool response is spoken by SystemSpeak with h.talkRound; a
\* tool result for the LLM re-enters genResponseByLLM with h.talkRound
RoundRespond(g) ==
    /\ upc[g] = "llm"
    /\ \/ /\ tasks' = tasks \cup {TtsTask(uloc[g].current, uloc[g].round, "segment")}
          /\ upc' = [upc EXCEPT ![g] = "idle"]
          /\ UNCHANGED uloc
       \/ /\ uloc[g].kind # "image"
          /\ tasks' = tasks \cup {TtsTask(uloc[g].current, hTalkRound, "system")}
          /\ upc' = [upc EXCEPT ![g] = "idle"]
          /\ UNCHANGED uloc
       \/ /\ uloc[g].kind # "image"
          /\ uloc[g].reentries < MaxReentry
          /\ uloc' = [uloc EXCEPT ![g].round = hTalkRound, ![g].reentries = @ + 1]
          /\ UNCHANGED <<upc, tasks>>
    /\ UNCHANGED <<hTalkRound, utterances, pairs>>
    /\ RoundFrame

\* NewConnectionHandler: talkRound 0
RoundInit ==
    /\ hTalkRound = 0
    /\ upc = [g \in Talkers |-> "idle"]
    /\ uloc = [g \in Talkers |-> NoUtterance]
    /\ utterances = 0
    /\ pairs = <<>>
    /\ tasks = {}

(***************************************************************************)
(* The recognition listener: OnAsrResult, the front of handleChatMessage   *)
(* with the exit intent, and the close after the last reply.               *)
(***************************************************************************)
Modes == {"auto", "manual", "realtime"}

\* texts as sequences of characters: "x" is a configured exit command, "a"
\* another word, "." punctuation
RawTexts == {<<>>, <<"a">>, <<"x">>, <<"x", ".">>, <<"a", "x">>}

\* the text OnAsrResult puts in place of the result after two silence gaps
SilenceText == <<"s">>

ExitCommand == <<"x">>

\* utils.RemoveAllPunctuation
RECURSIVE RemoveAllPunctuation(_)
RemoveAllPunctuation(t) ==
    IF t = <<>> THEN <<>>
    ELSE IF Head(t) = "." THEN RemoveAllPunctuation(Tail(t))
    ELSE <<Head(t)>> \o RemoveAllPunctuation(Tail(t))

\* a match on the text as it was received
QuitIntentRaw(configured, text) == configured /\ text = ExitCommand

\* QuitIntent's condition: CMD_exit is configured and the text without
\* punctuation equals one of its commands
QuitIntent(configured, text) == configured /\ RemoveAllPunctuation(text) = ExitCommand

\* a listener that would leave the result as it is
KeepResult(result, gaps) == result

\* OnAsrResult's first statement: after two silence gaps the result is replaced
Injected(result, gaps) == IF gaps >= 2 THEN SilenceText ELSE result

\* a listener that would never stop the server's speech
StopsSpeechNever(mode) == FALSE

\* the mode whose results stop the server's speech before they are dispatched
StopsSpeech(mode) == mode = "realtime"

NoResult ==
    [raw |-> <<>>, silent |-> FALSE, text |-> <<>>, stopped |-> FALSE,
     handled |-> FALSE, ended |-> "", llm |-> FALSE, enqueued |-> 0]

\* the handler of a result returns: what it did is kept
Returns(r) ==
    /\ lresults' = lresults \cup {r}
    /\ lcur' = NoResult
    /\ lpc' = "idle"

\* OnAsrResult up to the call of handleChatMessage
ListenResult ==
    /\ lpc = "idle"
    /\ ~lClosed
    /\ heardCount < MaxResults
    /\ heardCount' = heardCount + 1
    /\ \E raw \in RawTexts, gaps \in {0, 2}, isFinalResult \in BOOLEAN :
         LET result == Injected(raw, gaps)
             r == [NoResult EXCEPT !.raw = raw, !.silent = gaps >= 2, !.text = result]
         IN  /\ closeAfterChat' = (closeAfterChat \/ gaps >= 2)
             /\ IF clientListenMode = "manual"
                THEN /\ Len(clientAsrText \o result) <= MaxTextLen
                     /\ clientAsrText' = clientAsrText \o result
                     /\ IF isFinalResult
                        THEN /\ lcur' = [r EXCEPT !.text = clientAsrText \o result]
                             /\ lpc' = "chat"
                             /\ UNCHANGED lresults
                        ELSE Returns([r EXCEPT !.ended = "accumulated"])
                     /\ UNCHANGED <<lVoiceStop, lQueued>>
                ELSE /\ UNCHANGED clientAsrText
                     /\ IF result = <<>>
                        THEN /\ Returns([r EXCEPT !.ended = "ignored"])
                             /\ UNCHANGED <<lVoiceStop, lQueued>>
                        ELSE /\ IF StopsSpeech(clientListenMode)
                                THEN lVoiceStop' = 1 /\ lQueued' = 0
                                ELSE UNCHANGED <<lVoiceStop, lQueued>>
                             /\ lcur' = [r EXCEPT !.stopped = StopsSpeech(clientListenMode)]
                             /\ lpc' = "chat"
                             /\ UNCHANGED lresults
    /\ UNCHANGED <<clientListenMode, cmdExit, lClosed, spc>>
    /\ ListenFrame

\* handleChatMessage up to the call of genResponseByLLM: the empty text, the
\* exit intent, the new round
HandleFront ==
    /\ lpc = "chat"
    /\ LET r == [lcur EXCEPT !.handled = TRUE]
       IN  IF r.text = <<>>
           THEN \* clientAbortChat
                /\ lVoiceStop' = 1
                /\ lQueued' = 0
                /\ Returns([r EXCEPT !.ended = "empty"])
                /\ UNCHANGED lClosed
           ELSE IF QuitIntent(cmdExit, r.text)
           THEN \* Close: stopChan is closed, the queues are drained
                /\ lClosed' = TRUE
                /\ lQueued' = 0
                /\ Returns([r EXCEPT !.ended = "closed"])
                /\ UNCHANGED lVoiceStop
           ELSE /\ lcur' = [r EXCEPT !.ended = "dispatched"]
                /\ lpc' = "llm"
                /\ UNCHANGED <<lresults, lVoiceStop, lQueued, lClosed>>
    /\ UNCHANGED <<clientListenMode, cmdExit, clientAsrText, closeAfterChat, heardCount, spc>>
    /\ ListenFrame

\* genResponseByLLM for the dispatched text: the call fails, or the flag is
\* reset and the segments of the reply are enqueued
ListenRespond ==
    /\ lpc = "llm"
    /\ \/ /\ Returns(lcur)
          /\ UNCHANGED <<lVoiceStop, lQueued>>
       \/ \E n \in 1..MaxSegs :
            /\ lVoiceStop' = 0
            /\ lQueued' = lQueued + n
            /\ Returns([lcur EXCEPT !.llm = TRUE, !.enqueued = n])
    /\ UNCHANGED <<clientListenMode, cmdExit, clientAsrText, closeAfterChat, lClosed,
                   heardCount, spc>>
    /\ ListenFrame

\* the egress sends one segment; after the last one of the reply it has the
\* end of the reply to handle
ListenSend ==
    /\ ~lClosed
    /\ spc = "idle"
    /\ lQueued > 0
    /\ lQueued' = lQueued - 1
    /\ spc' = IF lQueued = 1 THEN "finish" ELSE "idle"
    /\ UNCHANGED <<clientListenMode, cmdExit, clientAsrText, closeAfterChat, lClosed,
                   lVoiceStop, lpc, lcur, lresults, heardCount>>
    /\ ListenFrame

\* the end of a reply: tts stop, and Close when close_after_chat is set
ListenFinish ==
    /\ spc = "finish"
    /\ spc' = "idle"
    /\ IF closeAfterChat
       THEN lClosed' = TRUE /\ lQueued' = 0
       ELSE UNCHANGED <<lClosed, lQueued>>
    /\ UNCHANGED <<clientListenMode, cmdExit, clientAsrText, closeAfterChat,
                   lVoiceStop, lpc, lcur, lresults, heardCount>>
    /\ ListenFrame

\* a session whose client has chosen a listen mode, with or without CMD_exit
ListenInit(modes) ==
    /\ clientListenMode \in modes
    /\ cmdExit \in (IF modes = Modes THEN BOOLEAN ELSE {TRUE})
    /\ clientAsrText = <<>>
    /\ closeAfterChat = FALSE
    /\ lClosed = FALSE
    /\ lVoiceStop = 0
    /\ lQueued = 0
    /\ lpc = "idle"
    /\ lcur = NoResult
    /\ lresults = {}
    /\ heardCount = 0
    /\ spc = "idle"

(***************************************************************************)
(* Audio ingress with VAD: processAudioWithVAD and the VADState.           *)
(***************************************************************************)
\* sizes of the inbound chunks, in the unit InitFrameSize is counted in
ChunkSizes == {0, 2, 3}

\* the bytes of chunk n: each byte is known by the chunk it came with
ChunkData(n, size) == [i \in 1..size |-> n]

\* a flush that would leave out the oldest byte
GetAllButOldest(buf) == IF buf = <<>> THEN buf ELSE Tail(buf)

\* VADState.GetAndClearAllData: what it returns
GetAndClearAllData(buf) == buf

\* VADState.HasEnoughDataForVAD
HasEnoughDataForVAD(buf, fs) == Len(buf) >= VadCheckFrames * fs

\* a truncation that removes nothing
KeepAllFrames(buf, fs, keepFrames) == buf

\* VADState.RemoveOldFrames
RemoveOldFrames(buf, fs, keepFrames) ==
    LET currentFrames == Len(buf) \div fs
    IN  IF currentFrames > keepFrames
        THEN SubSeq(buf, (currentFrames - keepFrames) * fs + 1, Len(buf))
        ELSE buf

\* VADState.IsSilence
IsSilence(idle) == idle > SilenceThreshold

AddAudio(data) == [op |-> "AddAudio", data |-> data]

SendLastAudio == [op |-> "SendLastAudio", data |-> <<>>]

\* processAudioWithVAD for one inbound chunk; the verdict of the VAD provider
\* on the first frame of the buffer is any of the two (an error counts as
\* voice)
ProcessAudioWithVAD ==
    /\ audioIn < MaxAudio
    /\ audioIn' = audioIn + 1
    /\ \E size \in ChunkSizes, haveVoice \in BOOLEAN :
         LET audioData == ChunkData(audioIn + 1, size)
             fs == IF size > 0 /\ size # frameSize THEN size ELSE frameSize
             buf == audioBuffer \o audioData
         IN  /\ frameSize' = fs
             /\ IF ~HasEnoughDataForVAD(buf, fs)
                THEN /\ audioBuffer' = buf
                     /\ UNCHANGED <<vadHaveVoice, voiceStop, idleDuration, asrCalls,
                                    edge, afterEdge, stopAt>>
                ELSE IF haveVoice /\ ~vadHaveVoice
                THEN \* the rising edge
                     /\ asrCalls' = Append(asrCalls, AddAudio(GetAndClearAllData(buf)))
                     /\ audioBuffer' = <<>>
                     /\ vadHaveVoice' = TRUE
                     /\ idleDuration' = 0
                     /\ edge' = [held |-> buf, at |-> Len(asrCalls) + 1]
                     /\ UNCHANGED <<voiceStop, afterEdge, stopAt>>
                ELSE IF vadHaveVoice
                THEN /\ asrCalls' = IF GetAndClearAllData(buf) # <<>>
                                    THEN Append(asrCalls, AddAudio(GetAndClearAllData(buf)))
                                    ELSE asrCalls
                     /\ audioBuffer' = <<>>
                     /\ afterEdge' = IF audioData # <<>> THEN Append(afterEdge, audioData)
                                     ELSE afterEdge
                     /\ idleDuration' = IF haveVoice THEN 0 ELSE idleDuration + FrameMs
                     /\ IF IsSilence(idleDuration')
                        THEN /\ voiceStop' = TRUE
                             /\ stopAt' = IF voiceStop THEN stopAt ELSE Len(asrCalls')
                        ELSE UNCHANGED <<voiceStop, stopAt>>
                     /\ UNCHANGED <<vadHaveVoice, edge>>
                ELSE \* no voice so far and none now
                     /\ idleDuration' = idleDuration + FrameMs
                     /\ audioBuffer' = IF Len(buf) \div fs > VadCheckFrames * 3
                                       THEN RemoveOldFrames(buf, fs, MaxBufferFrames)
                                       ELSE buf
                     /\ UNCHANGED <<vadHaveVoice, voiceStop, asrCalls, edge, afterEdge,
                                    stopAt>>
    /\ VadFrame

\* handleListenMessage, state stop: the client ends the utterance
ListenStop ==
    /\ asrCalls # <<>>
    /\ asrCalls[Len(asrCalls)].op # "SendLastAudio"
    /\ asrCalls' = Append(asrCalls, SendLastAudio)
    /\ UNCHANGED <<audioBuffer, frameSize, vadHaveVoice, voiceStop, idleDuration, edge,
                   afterEdge, stopAt, audioIn>>
    /\ VadFrame

NoEdge == [held |-> <<>>, at |-> 0]

\* NewVADState(640, 200)
VadInit ==
    /\ audioBuffer = <<>>
    /\ frameSize = InitFrameSize
    /\ vadHaveVoice = FALSE
    /\ voiceStop = FALSE
    /\ idleDuration = 0
    /\ asrCalls = <<>>
    /\ edge = NoEdge
    /\ afterEdge = <<>>
    /\ stopAt = 0
    /\ audioIn = 0

(***************************************************************************)
(* The WebRTC VAD provider's Process.                                      *)
(***************************************************************************)
\* lengths in bytes of the PCM data Process is given, and the frame durations
PcmLengths == {0, 321, 322, 640, 642, 1280, 1920}

FrameDurations == {10, 20}

\* the frame sizes the WebRTC VAD takes, in bytes: 10, 20 and 30 ms
SupportedFrameSizes == <<(DefaultSampleRate * 2 * 10) \div 1000,
                         (DefaultSampleRate * 2 * 20) \div 1000,
                         (DefaultSampleRate * 2 * 30) \div 1000>>

\* the first supported size that divides the data, the 20 ms size if none does
ActualFrameBytes(len) ==
    IF len % SupportedFrameSizes[1] = 0 THEN SupportedFrameSizes[1]
    ELSE IF len % SupportedFrameSizes[2] = 0 THEN SupportedFrameSizes[2]
    ELSE IF len % SupportedFrameSizes[3] = 0 THEN SupportedFrameSizes[3]
    ELSE SupportedFrameSizes[2]

\* frames the loop of Process analyses
TotalFrames(len) == len \div ActualFrameBytes(len)

\* isActive := activityCount >= (totalFrames+1)/2
IsActive(activityCount, totalFrames) == activityCount >= (totalFrames + 1) \div 2

VadResult(len, ms, total, activity, active, err) ==
    [len |-> len, frameMs |-> ms, totalFrames |-> total, activityCount |-> activity,
     active |-> active, err |-> err]

\* Provider.Process(pcm, 16000, frameMs); speech is the verdict of the WebRTC
\* VAD on each frame, failing whether its call fails on the first frame
ProviderProcess(len, ms, speech, failing) ==
    LET frameBytes == (DefaultSampleRate * 2 * ms) \div 1000
        total == TotalFrames(len)
        activity == Cardinality({i \in 1..total : speech[i]})
    IN  IF len = 0 THEN VadResult(len, ms, 0, 0, FALSE, FALSE)
        ELSE IF len % 2 # 0 THEN VadResult(len, ms, 0, 0, FALSE, TRUE)
        ELSE IF len < frameBytes THEN VadResult(len, ms, 0, 0, FALSE, FALSE)
        ELSE IF failing /\ total > 0 THEN VadResult(len, ms, 1, 0, FALSE, TRUE)
        ELSE VadResult(len, ms, total, activity, IsActive(activity, total), FALSE)

\* one call of Process by processAudioWithVAD
VadProcess ==
    /\ vadCalls < MaxVadCalls
    /\ vadCalls' = vadCalls + 1
    /\ \E len \in PcmLengths, ms \in FrameDurations, failing \in BOOLEAN,
          speech \in [1..MaxVadFrames -> BOOLEAN] :
         vadResult' = ProviderProcess(len, ms, speech, failing)
    /\ WebrtcFrame

WebrtcInit ==
    /\ vadCalls = 0
    /\ vadResult = VadResult(0, 0, 0, 0, FALSE, FALSE)

(***************************************************************************)
(* Specifications of the pipeline.                                         *)
(***************************************************************************)
\* a session under either setting of delete_audio; no transport traffic
\* the subsystems that a specification of another subsystem leaves as built
\* the subsystems every specification but their own leaves as built
Others ==
    VadInit /\ DestroyInit /\ ConnInit /\ KeyInit /\ ChainInit /\ PresenceInit /\ WebrtcInit

Rest == DmInit({"postgres"}) /\ RoundInit /\ ListenInit({"auto"}) /\ Others

\* the dialogue of an idle session with a system prompt
TurnIdle == TurnInit /\ dialogue # <<>>

Init == PipeInit(BOOLEAN) /\ AuthInit({TRUE}) /\ UdpInit /\ TurnIdle /\ SegInit /\ Rest

\* the speech pipeline of a session whose rounds are started by the recognizer
\* and whose client barges in
Next ==
    \/ OnAsrResult
    \/ StartRound("asr")
    \/ LLMCall("asr")
    \/ StreamSegment("asr")
    \/ SpeakEnqueue("asr")
    \/ StreamEnd("asr")
    \/ ToolReentry("asr")
    \/ ReaderRead({"abort"}, MaxAborts)
    \/ ReaderPush
    \/ TextTake
    \/ TTSTake
    \/ TTSSynth
    \/ TTSForward
    \/ SendTake
    \/ SendFrame

Spec == Init /\ [][Next]_vars

\* the ingress side and the end of a session whose client streams audio and MCP
\* replies and leaves: no utterance is dispatched
IngressNext ==
    \/ ReaderRead({"audio", "mcp", "exit"}, MaxInbound)
    \/ ReaderPush
    \/ ReaderEnd
    \/ TransportStop
    \/ \E p \in Closers : CloseEnter(p)
    \/ \E p \in Closers : CloseStopChan(p)
    \/ \E p \in Closers : CloseCleanup(p)
    \/ \E w \in Workers : WorkerReturn(w)
    \/ TextTake
    \/ AudioTake
    \/ McpTake

IngressSpec == Init /\ [][IngressNext]_vars

\* every goroutine of the ingress side keeps running: a send or a receive that
\* stays possible is made, a caller of Close goes on, the reader's blocked read
\* returns, and a worker whose select can take the closed stopChan again and
\* again takes it
IngressFair ==
    /\ WF_vars(ReaderPush)
    /\ WF_vars(ReaderEnd)
    /\ WF_vars(TextTake)
    /\ WF_vars(AudioTake)
    /\ WF_vars(McpTake)
    /\ \A p \in Closers : WF_vars(CloseEnter(p))
    /\ \A p \in Closers : WF_vars(CloseStopChan(p))
    /\ \A p \in Closers : WF_vars(CloseCleanup(p))
    /\ \A w \in Workers : SF_vars(WorkerReturn(w))

FairIngressSpec == IngressSpec /\ IngressFair

\* a session whose client types its utterances and whose transport goes away:
\* the text worker runs handleChatMessage while Close is called
SessionNext ==
    \/ ReaderRead({"chat"}, MaxInbound)
    \/ ReaderPush
    \/ ReaderEnd
    \/ CloseEnter("reader")
    \/ CloseStopChan("reader")
    \/ CloseCleanup("reader")
    \/ \E w \in Workers : WorkerReturn(w)
    \/ TextTake
    \/ StartRound("text")
    \/ LLMCall("text")
    \/ StreamSegment("text")
    \/ SpeakEnqueue("text")
    \/ StreamEnd("text")
    \/ TTSTake
    \/ TTSSynth
    \/ TTSForward
    \/ SendTake
    \/ SendFrame

SessionSpec == Init /\ [][SessionNext]_vars

\* every goroutine of the session keeps running: a step that stays possible is
\* taken, and a worker whose select can take the closed stopChan again and again
\* takes it
SessionFair ==
    /\ WF_vars(SessionNext)
    /\ \A w \in Workers : SF_vars(WorkerReturn(w))
    /\ WF_vars(TextTake)
    /\ WF_vars(StartRound("text"))
    /\ WF_vars(LLMCall("text"))
    /\ WF_vars(StreamSegment("text") \/ StreamEnd("text"))
    /\ WF_vars(SpeakEnqueue("text"))
    /\ WF_vars(TTSTake)
    /\ WF_vars(TTSSynth)
    /\ WF_vars(TTSForward)
    /\ WF_vars(SendTake)
    /\ WF_vars(SendFrame)
    /\ WF_vars(CloseEnter("reader"))
    /\ WF_vars(CloseStopChan("reader"))
    /\ WF_vars(CloseCleanup("reader"))

FairSessionSpec == SessionSpec /\ SessionFair

(***************************************************************************)
(* Specifications of the transports.                                       *)
(***************************************************************************)
\* admission of WebSocket and MQTT connections
AuthNext ==
    \/ HandleWebSocket
    \/ WsHandlerEnd
    \/ OnMessage
    \/ MqttHandlerEnd

\* the transports with and without a token verifier; no session activity
AuthInitial == PipeInit({FALSE}) /\ AuthInit(BOOLEAN) /\ UdpInit /\ TurnIdle /\ SegInit /\ Rest

AuthSpec == AuthInitial /\ [][AuthNext]_vars

\* one UDP session fed from the UDP socket and from its MQTT connection
UdpNext ==
    \/ ProcessPacket
    \/ PushIncoming
    \/ ReadMessage
    \/ CloseSession

UdpInitial == PipeInit({FALSE}) /\ AuthInit({TRUE}) /\ UdpInit /\ TurnIdle /\ SegInit /\ Rest

UdpSpec == UdpInitial /\ [][UdpNext]_vars

\* the turns of two goroutines on one dialogue, and its truncation
TurnNext ==
    \/ \E g \in Talkers :
          \/ HandleChatMessage(g)
          \/ GenResponseByLLM(g)
          \/ HandleFunctionResult(g)
          \/ AddToolCallAssistant(g)
          \/ AddToolCallTool(g)
    \/ Truncate

TurnInitial ==
    PipeInit({FALSE}) /\ AuthInit({TRUE}) /\ UdpInit /\ TurnInit /\ SegInit /\ Rest

TurnSpec == TurnInitial /\ [][TurnNext]_vars

\* the segmenter on every stream of up to MaxChunks chunks
SegNext ==
    \/ StreamChunk
    \/ StreamClosed
    \/ FlushRemaining
    \/ PutReply

SegSpec == UdpInitial /\ [][SegNext]_vars

\* any order of operations on one DialogueManager, for every backend
DmNext ==
    \/ SetSystemMessage
    \/ DmPut
    \/ DmKeepRecent
    \/ LoadFromJSON
    \/ DmClear

DmInitial ==
    PipeInit({FALSE}) /\ AuthInit({TRUE}) /\ UdpInit /\ TurnIdle /\ SegInit /\ DmInit(Backends) /\ RoundInit /\ ListenInit({"auto"}) /\ Others

DmSpec == DmInitial /\ [][DmNext]_vars

\* utterances dispatched by the recognizer's callback and the text worker
RoundNext ==
    \E g \in Talkers :
        \/ RoundLoad(g)
        \/ RoundStore(g)
        \/ RoundCurrent(g)
        \/ RoundRespond(g)

RoundSpec == UdpInitial /\ [][RoundNext]_vars

\* the results of the recognizer in every listen mode, and the egress
ListenNext ==
    \/ ListenResult
    \/ HandleFront
    \/ ListenRespond
    \/ ListenSend
    \/ ListenFinish

ListenInitial ==
    /\ PipeInit({FALSE}) /\ AuthInit({TRUE}) /\ UdpInit /\ TurnIdle /\ SegInit
    /\ DmInit({"postgres"}) /\ RoundInit /\ ListenInit(Modes) /\ Others

ListenSpec == ListenInitial /\ [][ListenNext]_vars

\* the handlers return and the egress goroutine runs
ListenFair ==
    /\ WF_vars(HandleFront)
    /\ WF_vars(ListenRespond)
    /\ WF_vars(ListenSend)
    /\ WF_vars(ListenFinish)

FairListenSpec == ListenSpec /\ ListenFair

\* the audio worker with VAD enabled, and the client's listen stop
VadNext ==
    \/ ProcessAudioWithVAD
    \/ ListenStop

VadSpec == UdpInitial /\ [][VadNext]_vars

\* one UDP session: its two senders, the readers of its channels and Destroy
DestroyNext ==
    \/ \E c \in SessCallers : SessCheck(c)
    \/ \E c \in SessCallers : SessSelect(c)
    \/ \E ch \in SessChannels : SessDrain(ch)
    \/ DestroyStatus
    \/ DestroyClose

DestroySpec == UdpInitial /\ [][DestroyNext]_vars

\* one MQTT connection: the transport pushes, the handler reads, both close
ConnNext ==
    \/ PushCheck
    \/ PushSelect
    \/ ReadIncoming
    \/ \E p \in ConnClosers : ConnCloseSwap(p)
    \/ \E p \in ConnClosers : ConnCloseChan(p)

ConnSpec == UdpInitial /\ [][ConnNext]_vars

\* the messages of one MQTT key and the sessions created for it
KeyNext ==
    \/ \E cb \in Callbacks : OnMessageLoad(cb)
    \/ \E cb \in Callbacks : OnMessageStore(cb)
    \/ \E n \in HandlerIds : HandlerReturn(n)
    \/ \E n \in HandlerIds : HandlerClose(n)

KeySpec == UdpInitial /\ [][KeyNext]_vars

\* the LLM invocations made for the utterances of one session
ChainNext ==
    \/ ChainStart
    \/ ChainStream
    \/ ChainResult

ChainSpec == UdpInitial /\ [][ChainNext]_vars

\* the goroutine that answers keeps running: a stream is read to its end and a
\* tool result is handled
ChainFair == WF_vars(ChainStream) /\ WF_vars(ChainResult)

FairChainSpec == ChainSpec /\ ChainFair

\* the calls the transports and the sessions make for one device
PresenceNext ==
    \/ \E s \in PresenceSessions : SetSessionOnline(s)
    \/ \E s \in PresenceSessions : SetSessionOffline(s)
    \/ UpdateHeartbeat
    \/ \E online \in BOOLEAN : SetDeviceConnectionState(online)

PresenceSpec == UdpInitial /\ [][PresenceNext]_vars

\* calls of the VAD provider on data of every length and verdict
WebrtcNext == VadProcess

WebrtcSpec == UdpInitial /\ [][WebrtcNext]_vars


(***************************************************************************)
(* Properties of the speech pipeline.                                      *)
(***************************************************************************)
\* the TTS worker holds a task it has read from the TTS queue
TTSBusy == pc["tts"] \in {"synth", "forward"}

\* C1 -- round isolation: once an abort has been processed while segments of round
\* R were queued, at most one further segment of R gets audio frames on the wire,
\* and no frame of a round is written while another round is current
RoundIsolation ==
    /\ abortMark.more <= 1
    /\ \A s \in sentSegs : ~s.late

\* C2 -- a task read from the TTS queue whose round differs from talkRound is
\* discarded: nothing is synthesized for it
StaleTaskDiscarded ==
    TTSBusy => ~(ttsTask.stale /\ ttsTask.filepath # "")

SegmentOrder ==
    (pc["send"] = "frames" /\ emitIdx[audioTask.round] >= 0)
       => \A s \in sentSegs :
             s.round = audioTask.round => s.textIndex <= audioTask.textIndex

\* both segments of a round emitted as 1, 2 have frames on the wire
TwoSegmentsSent ==
    \E r \in 1..MaxRounds :
       /\ emitIdx[r] = 2
       /\ \A i \in 1..2 : \E s \in sentSegs : s.round = r /\ s.textIndex = i

(***************************************************************************)
(* Properties of the queues and of the end of the session.                 *)
(***************************************************************************)
\* C5 -- no producer ever waits on a full queue: the inbound reader in
\* handleMessage, the segment producer in SpeakAndPlay and the TTS worker in
\* processTTSTask can always complete their send
NoProducerBlocks ==
    /\ pc["reader"] = "push" => RoomFor(rmsg)
    /\ \A p \in Dispatchers : pc[p] = "enqueue" => CanSend(ttsQueue)
    /\ pc["tts"] = "forward" => CanSend(audioMessagesQueue)

\* C6 -- cancellation: once stopChan is closed every worker coroutine eventually
\* returns
WorkersReturn ==
    Closed ~> (\A w \in Workers : pc[w] = "returned")

\* C7 -- Close is idempotent: stopChan is closed once and the cleanup runs once
\* however many goroutines call Close, and both have happened when a call returns
CloseOnce ==
    /\ stopChan <= 1
    /\ cleanupRuns <= 1
    /\ (closeOnce = "done" \/ \E p \in {"reader", "stopper"} : pc[p] = "done")
          => (stopChan = 1 /\ cleanupRuns = 1)

\* the transport's cleanup and its Stop() have both called Close and returned
TwoClosersDone ==
    /\ pc["reader"] = "done"
    /\ pc["stopper"] = "done"
    /\ closeOnce = "done"

\* C32 -- once Close has been called, Handle eventually returns: the inbound
\* reader leaves handleMessage and its main loop, so that the transport's
\* deferred cleanup runs
HandleReturns ==
    Closed ~> (pc["reader"] \in {"close", "close_stop", "close_clean", "done"})
(***************************************************************************)
(* Admission and UDP audio: the properties.                                *)
(***************************************************************************)
\* the last request carried a verifiable token signed for another device
WsMismatch ==
    /\ lastAdmit.via = "ws"
    /\ lastAdmit.req.auth.kind = "jwt"
    /\ lastAdmit.req.auth.dev # lastAdmit.req.dev

MqttMismatch ==
    /\ lastAdmit.via = "mqtt"
    /\ lastAdmit.first
    /\ lastAdmit.msg.token.kind = "jwt"
    /\ lastAdmit.msg.token.dev # lastAdmit.msg.dev

\* C8: a request whose token names another device than the one requested (the
\* Device-Id header on WebSocket, the device of the topic on MQTT) is refused
\* without a connection handler being created, on WebSocket with status 401, and
\* no handler that exists was created for a device other than its token's
DeviceMismatchRejected ==
    /\ WsMismatch => lastAdmit.status = StatusUnauthorized /\ ~lastAdmit.created
    /\ MqttMismatch =>
          /\ ~lastAdmit.created
          /\ ~lastAdmit.pushed
          /\ lastAdmit.outcome \notin {"ok", "no_handler", "delivered"}
    /\ \A h \in wsActive : h.tokDev = h.dev
    /\ \A h \in mqHandlers : h.tokDev = h.dev

\* a mismatching upgrade request has been answered while a handler admitted over
\* MQTT is running
MismatchRefused == WsMismatch /\ mqHandlers # {} /\ handlersCreated = 1

\* a first message that is a wrapper whose headers.Token verifies for the device
\* of the topic
GoodFirst(msg) ==
    msg.shape = "hdr" /\ msg.token.kind = "jwt" /\ msg.token.dev = msg.dev

StalePacketDropped == \A h \in heard : h.late => h.form \notin {"plain", "cipher"}

\* C35: no interleaving of MQTTConnection.Close with PushIncoming sends on the
\* closed incoming channel: a message pushed concurrently with or after Close is
\* dropped without a panic.
NoPushOnClosedIncoming == ~connPanicked

DeviceFollowsSessions ==
    (\E s \in PresenceSessions : dpSessions[s] = "online") => dpOnline
\* C11: once a packet with sequence number 1 has been accepted, a second packet
\* with sequence number 1 is not accepted: its audio does not reach the recognizer
DuplicateDropped ==
    \A h \in heard : (h.seq = 1 /\ h.dup) => h.form # "plain"

\* C12: RemoteAddr and the address map are set only by packets that Decrypt
\* accepts, and while the session lives the map holds just its RemoteAddr
AddrLearnedByValid ==
    /\ udpAddrBy \in {"none", "ok"}
    /\ udpStatus = "active" =>
          udpAddr2Session = (IF udpRemoteAddr = "" THEN {} ELSE {udpRemoteAddr})

\* C13: RemoteSeq never decreases, whatever packets arrive in whatever order
RemoteSeqMonotonic == [][udpRemoteSeq' >= udpRemoteSeq]_vars

\* a packet below the highest sequence number was refused and its bytes came
\* through MQTT, while RemoteSeq stayed at the top
LowerSeqRefused ==
    /\ udpRemoteSeq = MaxSeq
    /\ \E h \in heard : h.late /\ h.seq < udpRemoteSeq

\* C34: no interleaving of Destroy with SendAudioData or RecvData sends on a
\* closed channel: once Destroy has closed the channels, every call returns an
\* error instead of sending.
NoSendOnClosedChannel == ~sessPanicked
(***************************************************************************)
(* The dialogue and the turns                                              *)
(***************************************************************************)
\* the tool call of an addToolCallMessage that is between its two Puts
Pending == {tloc[g].call : g \in {x \in Talkers : tpc[x] = "put_tool"}}

\* C14: in the dialogue an assistant message that carries a tool call is
\* directly followed by the tool message with the same tool_call_id, after
\* every dialogue operation (an addToolCallMessage that has not yet made its
\* second Put is not counted).
ToolCallsAnswered ==
    \A i \in DOMAIN dialogue :
        (/\ dialogue[i].role = "assistant"
         /\ dialogue[i].call # 0
         /\ dialogue[i].call \notin Pending)
        => /\ i < Len(dialogue)
           /\ dialogue[i + 1].role = "tool"
           /\ dialogue[i + 1].call = dialogue[i].call

\* a turn that has returned from the handling of a tool call's result
Returned(g) == tpc[g] = "idle" /\ tloc[g].end = "tool"

\* C15: a tool call with action req_llm appends the assistant(tool_calls) and
\* the tool(result) message and then re-enters genResponseByLLM, and the
\* re-entered genResponseByLLM is given a dialogue that ends with these two
\* messages.
ReinvokedSeesBoth ==
    \A g \in Talkers :
        /\ Returned(g) => tloc[g].action # "req_llm"
        /\ tloc[g].seen # "none" => tloc[g].seen = "last"

\* C16: a tool call with action call_handler runs the result handler, appends
\* the two messages and invokes the LLM again.
CallHandlerContinues ==
    \A g \in Talkers :
        (Returned(g) /\ tloc[g].action = "call_handler")
        => /\ tloc[g].handler
           /\ tloc[g].invokes > tloc[g].at

\* C17: a tool call with action error or not_found gets a fallback message
\* spoken in its round.
FailureSpoken ==
    \A g \in Talkers :
        (Returned(g) /\ tloc[g].action \in {"error", "not_found"})
        => tloc[g].said # {}

\* C18: a genResponseByLLM that ends on an LLM error, be it the call that
\* fails or an error chunk of the stream, has spoken the apology.
LlmErrorApologized ==
    \A g \in Talkers :
        tloc[g].end \in {"call_fail", "err_chunk"} => "apology" \in tloc[g].said

\* what a step that appends one message to the dialogue does to the rows, when
\* the messages to persist are those of the given contents
Rows(contents) ==
    IF Len(dialogue') = Len(dialogue) + 1
    THEN LET m == dialogue'[Len(dialogue')]
         IN  saved' = IF m.role \in {"user", "assistant"} /\ m.content \in contents
                      THEN Append(saved, [role |-> m.role, content |-> m.content])
                      ELSE saved
    ELSE saved' = saved

ChainTerminates == (chainPc = "llm") ~> (chainPc = "idle")

\* the tool messages of d whose assistant message with the tool call is not in d
OrphanTools(d) ==
    {i \in DOMAIN d :
        /\ d[i].role = "tool"
        /\ ~\E j \in 1..(i - 1) : d[j].role = "assistant" /\ d[j].call = d[i].call}

\* C38: after KeepRecentMessages has cut the history, with or without a system
\* prompt, the dialogue holds no tool message whose assistant message with the
\* tool call was cut away.
NoOrphanToolAfterCut ==
    [][Len(dialogue') < Len(dialogue) => OrphanTools(dialogue') = {}]_vars
(***************************************************************************)
(* The DialogueManager and its memory                                      *)
(***************************************************************************)
\* C21: memory is append-only for the relational and the key-value backend:
\* after n saves of user or assistant messages the store holds n messages, so
\* the same message saved twice is stored twice.
StoreHoldsAll == backend \in {"postgres", "redis"} => Len(store) = saves

\* C22: after every DialogueManager operation the first message of the
\* dialogue has role system if and only if a system prompt was set.
SystemFirstIffSet ==
    (dmDialogue # <<>> /\ dmDialogue[1].role = "system") <=> promptSet

(***************************************************************************)
(* The round counter                                                       *)
(***************************************************************************)
\* C23: talk_round never decreases, and the increment made for an utterance
\* raises it by exactly one.
TalkRoundMonotonic ==
    [][/\ hTalkRound' >= hTalkRound
       /\ (\E g \in Talkers : upc[g] = "store" /\ upc'[g] = "current")
             => hTalkRound' = hTalkRound + 1]_vars

\* C24: every TTS task enqueued while the utterance of round r is answered is
\* tagged with r, also after a tool-call re-entry and when it is spoken from a
\* tool response, and also when a newer round has started.
TaskCarriesItsRound == \A t \in tasks : t.tag = t.owner


\* C33: when the recognizer's callback and the text worker dispatch utterances
\* concurrently, every dispatch obtains a round number of its own and no
\* increment of talk_round is lost.
DispatchRoundsDistinct ==
    /\ \A i, j \in DOMAIN pairs : i # j => pairs[i] # pairs[j]
    /\ hTalkRound = utterances - Cardinality({g \in Talkers : upc[g] = "store"})
(***************************************************************************)
(* The recognition listener                                                *)
(***************************************************************************)
\* the results handled so far and the one being handled
Handled == lresults \cup (IF lpc = "idle" THEN {} ELSE {lcur})

\* C25: an utterance that equals a configured exit command once its
\* punctuation is stripped closes the session at once: the LLM is not called
\* for it and no TTS task is enqueued for it.
ExitIntentCloses ==
    \A r \in Handled :
        (r.handled /\ cmdExit /\ RemoveAllPunctuation(r.text) = <<"x">>)
        => /\ r.ended = "closed"
           /\ ~r.llm
           /\ r.enqueued = 0
           /\ lClosed
           /\ lQueued = 0

\* an exit command said with punctuation has closed the session
ExitCommandClosed ==
    /\ lClosed
    /\ \E r \in lresults : r.text = <<"x", ".">> /\ r.ended = "closed"

\* C26: in auto mode a result delivered after two consecutive silence gaps is
\* replaced by the silence text, which is dispatched as the user turn with
\* close_after_chat set; and once the reply has been spoken with
\* close_after_chat set the session is eventually closed.
SilenceCloses ==
    /\ [](clientListenMode = "auto" =>
            \A r \in Handled :
                r.silent => /\ r.text = <<"s">>
                            /\ closeAfterChat
                            /\ r \in lresults => (r.handled /\ r.ended = "dispatched"))
    /\ ((clientListenMode = "auto" /\ closeAfterChat /\ spc = "finish") ~> lClosed)

\* the reply to the silence text has been spoken and the session is closed, no
\* exit command having been said
SilenceClosed ==
    /\ clientListenMode = "auto"
    /\ lClosed
    /\ \A r \in lresults : r.ended # "closed"
    /\ \E r \in lresults : r.silent /\ r.raw = <<>> /\ r.llm /\ r.enqueued > 0

\* C27: in realtime mode a result that is not empty once the silence text has
\* been put in its place (a non-empty result, or any result after two silence
\* gaps) first stops the server's speech - server_voice_stop is set and the
\* queues are drained - and is then handed to the dialogue; an empty result
\* without two silence gaps causes neither a stop nor a dispatch.
RealtimeStopsFirst ==
    clientListenMode = "realtime" =>
        /\ \A r \in Handled :
              /\ r.text # <<>> => r.stopped
              /\ r.text = <<>> => (~r.stopped /\ ~r.handled /\ r.ended = "ignored")
              /\ (r \in lresults /\ r.text # <<>>) =>
                    (r.handled /\ r.ended \in {"dispatched", "closed"})
        /\ lpc = "chat" => (lVoiceStop = 1 /\ lQueued = 0)

\* C27 as stated: every non-empty result of the recognizer stops and is
\* dispatched, an empty result causes neither
RealtimeEmptyIgnored ==
    clientListenMode = "realtime" =>
        \A r \in Handled :
            /\ r.raw = <<>> => (~r.stopped /\ ~r.handled)
            /\ (r \in lresults /\ r.raw # <<>>) =>
                  (r.stopped /\ r.ended \in {"dispatched", "closed"})

\* a result has stopped the speech of an earlier reply and has been dispatched
RealtimeStopped ==
    /\ clientListenMode = "realtime"
    /\ \E r \in lresults : r.llm /\ r.enqueued = 2
    /\ lpc = "llm"
    /\ lcur.stopped /\ ~lcur.silent
    /\ lQueued = 0
    /\ spc = "idle"

(***************************************************************************)
(* The VAD state                                                           *)
(***************************************************************************)
\* the data of the AddAudio calls made after call number n
RECURSIVE AudioAfter(_, _)
AudioAfter(calls, n) ==
    IF Len(calls) <= n THEN <<>>
    ELSE LET rest == AudioAfter(SubSeq(calls, 1, Len(calls) - 1), n)
             last == calls[Len(calls)]
         IN  IF last.op = "AddAudio" THEN Append(rest, last.data) ELSE rest

\* C28: at the rising edge the recognizer receives in one call everything the
\* buffer holds, from its first frame on, and from then on every inbound chunk
\* in a call of its own, in the order of arrival, none lost and none twice.
RisingEdgeFlush ==
    edge.at # 0 =>
        /\ asrCalls[edge.at] = [op |-> "AddAudio", data |-> edge.held]
        /\ AudioAfter(asrCalls, edge.at) = afterEdge
        /\ AudioAfter(asrCalls, 0) = AudioAfter(SubSeq(asrCalls, edge.at, Len(asrCalls)), 0)
        /\ audioBuffer = <<>>

\* three buffered chunks were flushed at the rising edge and two more chunks
\* have followed one by one
EdgeThenSingles ==
    /\ edge.at # 0
    /\ Len(edge.held) = 3 * InitFrameSize
    /\ edge.held[1] # edge.held[Len(edge.held)]
    /\ Len(afterEdge) = 2

\* C29: once voice has been detected and the idle time exceeds the silence
\* threshold, voice_stop is set and the end of the utterance is signalled to
\* the recognizer.
SilenceSignalled ==
    (vadHaveVoice /\ idleDuration > SilenceThreshold)
    => /\ voiceStop
       /\ \E i \in DOMAIN asrCalls : i > stopAt /\ asrCalls[i].op = "SendLastAudio"

\* C30: the length of the audio buffer is a whole multiple of the frame size
\* after every mutation of the VAD state.
BufferWholeFrames == Len(audioBuffer) % frameSize = 0

IsSuffix(s, t) == Len(s) <= Len(t) /\ s = SubSeq(t, Len(t) - Len(s) + 1, Len(t))

MaxOf(a, b) == IF a >= b THEN a ELSE b

\* C31: while no voice has been detected the buffer holds, after each processed
\* chunk, at most max(3 x vad_check_frames, max_buffer_frames) frames, and
\* what it keeps is the most recent part of what it held and the new chunk.
BufferBounded ==
    /\ [](~vadHaveVoice =>
            Len(audioBuffer) \div frameSize <= MaxOf(3 * VadCheckFrames, MaxBufferFrames))
    /\ [][(~vadHaveVoice' /\ audioIn' # audioIn) =>
            \E size \in ChunkSizes :
                IsSuffix(audioBuffer', audioBuffer \o ChunkData(audioIn', size))]_vars

\* the buffer is full and the oldest chunk has been cut away
OldestFrameDropped ==
    /\ ~vadHaveVoice
    /\ Len(audioBuffer) \div frameSize = MaxBufferFrames
    /\ audioBuffer[1] > 1

\* C40: Process reports voice only if more than half of the frames it analysed
\* were classified as speech, and never when it analysed no whole frame.
VoiceOnlyByMajority ==
    vadResult.active =>
        /\ vadResult.totalFrames > 0
        /\ 2 * vadResult.activityCount > vadResult.totalFrames

====
